---- MODULE Spec2Model ----
(***************************************************************************)
(* Keyword-interest ingestion (src/Terraform/trends_daily/handler.py) and  *)
(* forecasting (src/Terraform/Glue/TrendGlueJob.py,                        *)
(* src/Terraform/trends_forecast/handler.py).                              *)
(*                                                                         *)
(* Days are integers (a day number).  Floating point values are exact      *)
(* rationals <<n, d>> with d > 0 in lowest terms; NaN is <<0, 0>>.  A      *)
(* DataFrame is a function from its index (a set of days) to a row, a      *)
(* function from the column names to values.                               *)
(***************************************************************************)
EXTENDS Integers, Sequences, FiniteSets, TLC

VARIABLES
    today,          \* date.today()
    prov,           \* the interest provider: what it answers to a query
    \* ---- stitch_daily / fetch_window_with_retry, one invocation
    s_pc,           \* position in stitch_daily
    days_back,      \* argument of stitch_daily
    windows,        \* make_windows(...)
    wi,             \* index i of the window being fetched (1-based)
    attempt,        \* loop variable of fetch_window_with_retry
    df,             \* the window's frame returned by fetch_window_with_retry
    merged,         \* merged frame (None = <<>>)
    last_scale,     \* scale computed by the last merge
    skip_events,    \* "window i/n empty after retries; continuing" warnings
    calls,          \* provider calls made so far for the window being fetched
    budget_low,     \* remaining time < 5000 ms
    skipped,        \* history: indices of the windows that came back empty
    exhausted,      \* history: indices of the windows whose every attempt raised
    result,         \* value returned by stitch_daily
    \* ---- the ingestion handler (trends_daily) and its table
    DAYS_BACK,      \* configuration: horizon per run
    groups_dict,    \* load_active_keywords(...): <<[slug, terms], ...>>
    table,          \* google_trends_daily: slug -> day -> row
    i_pc,           \* position in lambda_handler
    plan,           \* last_days and effective_days_back of the run in progress
    df_terms,       \* df_terms
    gdf_to_write,   \* gdf_to_write
    ev,             \* history: the last event
    run,            \* history: what the last run read, planned and returned
    expected,       \* history: the table a killed run would have left, had it completed
    kills,          \* history: runs terminated from outside so far
    advances,       \* history: calendar advances so far
    \* ---- a forecast run (Glue job main / trends_forecast lambda_handler)
    variant,        \* "glue" or "lambda"
    f_pc,           \* position in the run
    active_slugs,   \* load_active_slugs(...)
    si,             \* index of the slug the loop is at (1-based)
    trained,        \* trained
    skipped_slugs,  \* skipped: <<[slug, reason], ...>>
    total_rows,     \* total_rows / total_upsert
    touched_slugs,  \* touched_slugs
    forecasts,      \* google_trends_forecast: slug -> day -> forecast
    pushed,         \* the trends.updated notification went out
    series,         \* series: the loaded history of the slug the loop is at
    \* ---- one call of a function of the programs
    call,           \* the function called and its arguments
    ret,            \* the values returned so far, by name
    \* ---- the provider calls of one ingestion run (fetch_fast, then the windows)
    fetch_pc,       \* position: "fast", "fallback", "window", "done", "killed"
    remaining_ms,   \* ctx.get_remaining_time_in_millis()
    proxies,        \* proxies = fetch_webshare_proxies()
    client_cache,   \* _client_cache (module level): the proxy of the cached client
    fetch_attempt,  \* attempt, of fetch_fast or fetch_window_with_retry
    fetch_window,   \* index of the window being fetched (1-based)
    fetch_log       \* history: provider calls, sleeps and budget findings

ivars == <<DAYS_BACK, groups_dict, table, i_pc, plan, df_terms, gdf_to_write,
           ev, run, expected, kills, advances>>
svars == <<s_pc, days_back, windows, wi, attempt, df, merged, last_scale,
           skip_events, calls, budget_low, skipped, exhausted, result>>
fvars == <<variant, f_pc, active_slugs, si, trained, skipped_slugs, total_rows, touched_slugs,
           forecasts, pushed, series>>
cvars == <<call, ret>>
rvars == <<fetch_pc, remaining_ms, proxies, client_cache, fetch_attempt, fetch_window, fetch_log>>
vars == <<today, prov, svars, ivars, fvars, cvars, rvars>>

-----------------------------------------------------------------------------
(* Bounds of the model *)

\* windows the provider may leave empty during one stitch_daily invocation
MaxSkips == 1

\* first value of date.today()
StartDay == 500

\* calendar advances between runs
MaxAdvances == 1

\* ingestion runs terminated from outside
MaxKills == 1

\* FORECAST_DAYS, the horizon of a forecast (configurable; 7 when not set)
FORECAST_DAYS == 2

-----------------------------------------------------------------------------
(* Integer and rational arithmetic *)

Min(a, b) == IF a <= b THEN a ELSE b
Max(a, b) == IF a >= b THEN a ELSE b
Abs(a) == IF a < 0 THEN -a ELSE a

RECURSIVE GCD(_, _)
GCD(a, b) == IF b = 0 THEN a ELSE GCD(b, a % b)

R(n, d) ==
    IF d = 0 THEN <<0, 0>>
    ELSE LET g == GCD(Abs(n), Abs(d))
             s == IF d < 0 THEN -1 ELSE 1
         IN  <<s * (n \div g), s * (d \div g)>>

NaN == <<0, 0>>
IsNaN(x) == x[2] = 0
RInt(i) == <<i, 1>>
RAdd(x, y) == IF IsNaN(x) \/ IsNaN(y) THEN NaN ELSE R(x[1] * y[2] + y[1] * x[2], x[2] * y[2])
RSub(x, y) == IF IsNaN(x) \/ IsNaN(y) THEN NaN ELSE R(x[1] * y[2] - y[1] * x[2], x[2] * y[2])
RMul(x, y) == IF IsNaN(x) \/ IsNaN(y) THEN NaN ELSE R(x[1] * y[1], x[2] * y[2])
RDiv(x, y) == IF IsNaN(x) \/ IsNaN(y) \/ y[1] = 0 THEN NaN ELSE R(x[1] * y[2], x[2] * y[1])
\* comparisons with NaN are False, as in IEEE arithmetic
RLt(x, y) == ~IsNaN(x) /\ ~IsNaN(y) /\ x[1] * y[2] < y[1] * x[2]
RLe(x, y) == ~IsNaN(x) /\ ~IsNaN(y) /\ x[1] * y[2] <= y[1] * x[2]
RGt(x, y) == RLt(y, x)

\* DataFrame.clip(lo, hi): NaN stays NaN
RClip(x, lo, hi) ==
    IF IsNaN(x) THEN NaN
    ELSE IF RLt(x, lo) THEN lo ELSE IF RGt(x, hi) THEN hi ELSE x

\* int(round(float(val))): Python rounds halves to the even integer
PyRound(x) ==
    LET fl == x[1] \div x[2]          \* floor, x[2] > 0
        r2 == 2 * (x[1] - fl * x[2])  \* twice the remainder
    IN  IF r2 < x[2] THEN fl
        ELSE IF r2 > x[2] THEN fl + 1
        ELSE IF fl % 2 = 0 THEN fl ELSE fl + 1

-----------------------------------------------------------------------------
(* DataFrames *)

EmptyDF == <<>>
IsEmpty(f) == DOMAIN f = {}

\* f @@ <<>> is f; it makes TLC evaluate f once, to an explicit function
Series(f) == f @@ <<>>
Frame(f) == Series([d \in DOMAIN f |-> Series(f[d])])

Columns(f) == IF IsEmpty(f) THEN {} ELSE DOMAIN f[CHOOSE d \in DOMAIN f : TRUE]
Cell(f, d, c) == IF d \in DOMAIN f /\ c \in DOMAIN f[d] THEN f[d][c] ELSE NaN
\* df[c] as a Series
Column(f, c) == Series([d \in DOMAIN f |-> Cell(f, d, c)])

\* df * scale
Scaled(f, scale) == Frame([d \in DOMAIN f |-> [c \in DOMAIN f[d] |-> RMul(f[d][c], scale)]])

\* pd.concat([a, b]).groupby(level=0).mean(): per day and column, the mean of
\* the values present
ConcatMean(a, b) ==
    LET cols == Columns(a) \cup Columns(b)
        MeanOf(x, y) ==
            IF IsNaN(x) THEN y
            ELSE IF IsNaN(y) THEN x
            ELSE RDiv(RAdd(x, y), RInt(2))
    IN  Frame([d \in DOMAIN a \cup DOMAIN b |->
            [c \in cols |-> MeanOf(Cell(a, d, c), Cell(b, d, c))]])

\* the median of the values of a series (a function to rationals, no NaN)
Median(s) ==
    LET D == DOMAIN s
        n == Cardinality(D)
        \* rank of key k in the order by value, ties broken by key
        Before(j, k) == RLt(s[j], s[k]) \/ (s[j] = s[k] /\ j < k)
        Rank(k) == Cardinality({j \in D : Before(j, k)})
        At(r) == s[CHOOSE k \in D : Rank(k) = r]
    IN  IF n = 0 THEN NaN
        ELSE IF n % 2 = 1 THEN At(n \div 2)
        ELSE RDiv(RAdd(At(n \div 2 - 1), At(n \div 2)), RInt(2))

-----------------------------------------------------------------------------
(* Window helpers *)

RECURSIVE WindowsFrom(_, _, _, _)
WindowsFrom(cur_start, end, span_days, step_days) ==
    IF ~(cur_start < end) THEN <<>>
    ELSE LET w_end == Min(cur_start + (span_days - 1), end)
         IN  IF w_end >= end THEN << <<cur_start, w_end>> >>
             ELSE << <<cur_start, w_end>> >>
                  \o WindowsFrom(cur_start + step_days, end, span_days, step_days)

make_windows(end, db, span_days, step_days) ==
    WindowsFrom(end - db, end, span_days, step_days)

\* a mutant: the long horizons step by the whole span
StitchSpan_disjoint(db) ==
    IF db <= 30 THEN <<30, 30>>
    ELSE IF db <= 60 THEN <<60, 60>>
    ELSE <<90, 90>>

\* the (span_days, step_days) stitch_daily picks for a horizon
StitchSpan(db) ==
    IF db <= 30 THEN <<30, 30>>
    ELSE IF db <= 60 THEN <<60, 60>>
    ELSE <<90, 60>>

StitchWindows(end_day, db) ==
    make_windows(end_day, db, StitchSpan(db)[1], StitchSpan(db)[2])

-----------------------------------------------------------------------------
(* The interest provider (external).  It answers a query (terms, first day, *)
(* last day) with one integer in 0..100 per term and day, normalised within *)
(* the query: the largest value of the query is 100.  Truth is the          *)
(* underlying popularity; prov.spike is a day on which the first term peaks *)
(* (-1: no such day).                                                       *)

Truth(t, d) ==
    CASE t = "t1" -> IF d = prov.spike THEN 50 ELSE 25
      [] t = "t2" -> IF d % 2 = 0 THEN 10 ELSE 5
      [] t = "t3" -> 5
      [] t = "t4" -> 20
      [] t = "t5" -> 10
      [] OTHER    -> 100

SeqToSet(s) == {s[i] : i \in DOMAIN s}

RECURSIVE SetMax(_)
SetMax(S) ==
    IF S = {} THEN 0
    ELSE LET x == CHOOSE y \in S : TRUE IN Max(x, SetMax(S \ {x}))

\* pytrends.interest_over_time() for timeframe "ws we", isPartial dropped
ProviderQuery(terms, ws, we) ==
    LET ts == SeqToSet(terms)
        m  == SetMax({Truth(t, d) : t \in ts, d \in ws..we})
    IN  Frame([d \in ws..we |-> [t \in ts |-> RInt((100 * Truth(t, d)) \div m)]])

-----------------------------------------------------------------------------
(* overlap_scale_factor and the merge of stitch_daily *)

Eps6 == <<1, 1000000>>

FiniteOrOne(r) == IF ~IsNaN(r) /\ RGt(r, RInt(0)) THEN r ELSE RInt(1)

\* a mutant: the ratio taken the wrong way round (cur / ref)
overlap_scale_factor_inverted(ref, cur) ==
    LET idx  == DOMAIN ref \cap DOMAIN cur
        mask == {d \in idx : RGt(ref[d], RInt(0)) /\ RGt(cur[d], RInt(0))}
    IN  IF Cardinality(idx) < 3 THEN RInt(1)
        ELSE FiniteOrOne(Median(Series([d \in mask |-> RDiv(cur[d], ref[d])])))

overlap_scale_factor(ref, cur) ==
    LET idx  == DOMAIN ref \cap DOMAIN cur
        mask == {d \in idx : RGt(ref[d], RInt(0)) /\ RGt(cur[d], RInt(0))}
        \* (a + eps) / (b + eps), inf and NaN dropped
        soft == {d \in idx : ~IsNaN(RDiv(RAdd(ref[d], Eps6), RAdd(cur[d], Eps6)))}
    IN  IF Cardinality(idx) < 3 THEN RInt(1)
        ELSE IF Cardinality(mask) < 3
        THEN FiniteOrOne(Median(Series([d \in soft |->
                 RDiv(RAdd(ref[d], Eps6), RAdd(cur[d], Eps6))])))
        ELSE FiniteOrOne(Median(Series([d \in mask |-> RDiv(ref[d], cur[d])])))

\* the column the scale is computed on: terms[0] when both frames have it,
\* else the first term both have, else None ("")
AnchorCol(terms, m, f) ==
    LET both == {i \in DOMAIN terms : terms[i] \in Columns(m) /\ terms[i] \in Columns(f)}
    IN  IF both = {} THEN ""
        ELSE terms[CHOOSE i \in both : \A j \in both : i <= j]

StitchScale(terms, m, f) ==
    LET a == AnchorCol(terms, m, f)
    IN  IF a = "" THEN RInt(1) ELSE overlap_scale_factor(Column(m, a), Column(f, a))

\* one iteration of the loop body for a non-empty window frame f
StitchMerge(terms, m, f) ==
    IF IsEmpty(m) THEN f
    ELSE ConcatMean(m, Scaled(f, StitchScale(terms, m, f)))

\* Series.interpolate(limit_direction="both") on a daily index: linear inside,
\* nearest valid value at the edges
Interpolated(col) ==
    LET known == {d \in DOMAIN col : ~IsNaN(col[d])}
        Fill(d) ==
            LET before == {k \in known : k < d}
                after  == {k \in known : k > d}
                p == CHOOSE k \in before : \A j \in before : j <= k
                n == CHOOSE k \in after : \A j \in after : k <= j
            IN  IF before = {} /\ after = {} THEN NaN
                ELSE IF before = {} THEN col[n]
                ELSE IF after = {} THEN col[p]
                ELSE RAdd(col[p], RDiv(RMul(RSub(col[n], col[p]), RInt(d - p)), RInt(n - p)))
    IN  Series([d \in DOMAIN col |-> IF ~IsNaN(col[d]) THEN col[d] ELSE Fill(d)])

SetMin(S) == CHOOSE x \in S : \A y \in S : x <= y
SetTop(S) == CHOOSE x \in S : \A y \in S : y <= x

\* a mutant of the final pass: reindexed to daily frequency, gaps left as NaN
FinalPassNoInterpolation(m) ==
    IF IsEmpty(m) THEN EmptyDF
    ELSE Frame([d \in SetMin(DOMAIN m)..SetTop(DOMAIN m) |->
            [c \in Columns(m) |-> RClip(Cell(m, d, c), RInt(0), RInt(100))]])

\* merged.clip(0,100).sort_index().asfreq("D").interpolate(limit_direction="both").clip(0,100)
FinalPass(m) ==
    IF IsEmpty(m) THEN EmptyDF
    ELSE LET days == SetMin(DOMAIN m)..SetTop(DOMAIN m)
             cols == Columns(m)
             clipped == Series([c \in cols |->
                            Series([d \in days |-> RClip(Cell(m, d, c), RInt(0), RInt(100))])])
             filled  == Series([c \in cols |-> Interpolated(clipped[c])])
         IN  Frame([d \in days |-> [c \in cols |-> RClip(filled[c][d], RInt(0), RInt(100))]])

-----------------------------------------------------------------------------
(* stitch_daily, step by step.  Each provider call of fetch_window_with_retry *)
(* is one step; the environment decides whether the call returns a frame,    *)
(* returns an empty frame or raises.  budget_low says that                   *)
(* ctx.get_remaining_time_in_millis() has fallen under 5000.                 *)

StitchTerms == <<"t1", "t2">>

\* max_attempts passed by stitch_daily
WindowMaxAttempts == 7

StitchHorizons == {30, 150, 400}
StitchSpikes == {-1, StartDay - 100}

NoWindows == Len(windows)
Window == windows[wi]

\* the table before any run
AllSlugs == {"a", "b"}
EmptyTable == [sl \in AllSlugs |-> <<>>]

\* after: the event the run followed
NoRun == [after |-> "init", last_days |-> <<>>, effective_days_back |-> 0, upserts |-> {},
          statusCode |-> 0, rows_upserted |-> 0, note |-> ""]

\* no call
NoCall == [fn |-> "none"]
CallsIdle ==
    /\ call = NoCall
    /\ ret = <<>>

\* _client_cache without a client
NoClient == [client |-> FALSE, proxy |-> "None"]

\* no fetch in progress
FetchIdle ==
    /\ fetch_pc = "idle"
    /\ remaining_ms = 0
    /\ proxies = <<>>
    /\ client_cache = NoClient
    /\ fetch_attempt = 0
    /\ fetch_window = 0
    /\ fetch_log = <<>>

\* no forecast run
ForecastIdle ==
    /\ variant = "glue"
    /\ f_pc = "idle"
    /\ active_slugs = <<>>
    /\ si = 0
    /\ trained = 0
    /\ skipped_slugs = <<>>
    /\ total_rows = 0
    /\ touched_slugs = <<>>
    /\ forecasts = <<>>
    /\ pushed = FALSE
    /\ series = <<>>

NoPlan == [last_days |-> <<>>, effective_days_back |-> 0]

\* the ingestion handler is not running
IngestHandlerStopped ==
    /\ groups_dict = <<>>
    /\ i_pc = "idle"
    /\ plan = NoPlan
    /\ df_terms = EmptyDF
    /\ gdf_to_write = EmptyDF
    /\ ev = "init"
    /\ run = NoRun
    /\ expected = EmptyTable
    /\ kills = 0
    /\ advances = 0

\* ... under the default horizon
IngestHandlerIdle ==
    /\ DAYS_BACK = 30
    /\ IngestHandlerStopped

\* ... and has never run
IngestIdle ==
    /\ IngestHandlerIdle
    /\ table = EmptyTable

InitStitch ==
    /\ today = StartDay
    /\ prov \in {[spike |-> sp, fast_ok |-> FALSE, win_ok |-> TRUE] : sp \in StitchSpikes}
    /\ days_back \in StitchHorizons
    /\ windows = StitchWindows(today, days_back)
    /\ wi = 1
    /\ attempt = 0
    /\ df = EmptyDF
    /\ merged = EmptyDF
    /\ last_scale = RInt(1)
    /\ skip_events = 0
    /\ calls = 0
    /\ budget_low = FALSE
    /\ skipped = {}
    /\ exhausted = {}
    /\ s_pc = "fetch"
    /\ result = EmptyDF
    /\ IngestIdle
    /\ ForecastIdle
    /\ CallsIdle
    /\ FetchIdle

\* time passes: the remaining time only falls
TimePasses ==
    /\ s_pc \in {"fetch", "merge"}
    /\ ~budget_low
    /\ budget_low' = TRUE
    /\ UNCHANGED <<rvars, cvars, fvars, ivars, skipped, exhausted, today, prov, s_pc, days_back, windows, wi, attempt, df, merged,
                   last_scale, skip_events, calls, result>>

\* "Low time budget; aborting window fetch": an empty frame, no provider call
BudgetAbort ==
    /\ s_pc = "fetch"
    /\ budget_low
    /\ df' = EmptyDF
    /\ s_pc' = "merge"
    /\ UNCHANGED <<rvars, cvars, fvars, ivars, skipped, exhausted, today, prov, days_back, windows, wi, attempt, merged, last_scale,
                   skip_events, calls, budget_low, result>>

\* _fetch returns the window's frame
AttemptReturns ==
    /\ s_pc = "fetch"
    /\ ~budget_low
    /\ calls' = calls + 1
    /\ df' = ProviderQuery(StitchTerms, Window[1], Window[2])
    /\ s_pc' = "merge"
    /\ UNCHANGED <<rvars, cvars, fvars, ivars, skipped, exhausted, today, prov, days_back, windows, wi, attempt, merged, last_scale,
                   skip_events, budget_low, result>>

\* the provider answers with no rows: _fetch returns an empty frame
AttemptReturnsEmpty ==
    /\ s_pc = "fetch"
    /\ ~budget_low
    /\ skip_events < MaxSkips
    /\ calls' = calls + 1
    /\ df' = EmptyDF
    /\ s_pc' = "merge"
    /\ UNCHANGED <<rvars, cvars, fvars, ivars, skipped, exhausted, today, prov, days_back, windows, wi, attempt, merged, last_scale,
                   skip_events, budget_low, result>>

\* where a raising attempt leaves fetch_window_with_retry: the warning, the
\* sleep, and either the next attempt or, after max_attempts, the empty frame
AfterRaise(a) == IF a + 1 < WindowMaxAttempts THEN "fetch" ELSE "merge"

\* _fetch raises
AttemptRaises ==
    /\ s_pc = "fetch"
    /\ ~budget_low
    /\ attempt + 1 < WindowMaxAttempts \/ skip_events < MaxSkips
    /\ calls' = calls + 1
    /\ attempt' = attempt + 1
    /\ s_pc' = AfterRaise(attempt)
    /\ exhausted' = IF AfterRaise(attempt) = "merge" THEN exhausted \cup {wi} ELSE exhausted
    /\ df' = EmptyDF
    /\ UNCHANGED <<rvars, cvars, fvars, ivars, skipped, today, prov, days_back, windows, wi, merged, last_scale,
                   skip_events, budget_low, result>>

\* where the loop over the windows goes after window i
NextWindow(i) == IF i < NoWindows THEN "fetch" ELSE "final"

\* a mutant: an empty window ends the loop over the windows
NextWindowAfterSkipBreaks(i) == "final"

NextWindowAfterSkip(i) == NextWindow(i)

\* "window i/n empty after retries; continuing"
SkipWindow ==
    /\ s_pc = "merge"
    /\ IsEmpty(df)
    /\ skip_events' = skip_events + 1
    /\ skipped' = skipped \cup {wi}
    /\ s_pc' = NextWindowAfterSkip(wi)
    /\ wi' = wi + 1
    /\ attempt' = 0
    /\ calls' = 0
    /\ UNCHANGED <<rvars, cvars, fvars, ivars, exhausted, today, prov, days_back, windows, df, merged, last_scale,
                   budget_low, result>>

MergeWindow ==
    /\ s_pc = "merge"
    /\ ~IsEmpty(df)
    /\ last_scale' = IF IsEmpty(merged) THEN RInt(1) ELSE StitchScale(StitchTerms, merged, df)
    /\ merged' = StitchMerge(StitchTerms, merged, df)
    /\ s_pc' = NextWindow(wi)
    /\ wi' = wi + 1
    /\ attempt' = 0
    /\ calls' = 0
    /\ UNCHANGED <<rvars, cvars, fvars, ivars, skipped, exhausted, today, prov, days_back, windows, df, skip_events,
                   budget_low, result>>

StitchReturn ==
    /\ s_pc = "final"
    /\ result' = FinalPass(merged)
    /\ s_pc' = "done"
    /\ UNCHANGED <<rvars, cvars, fvars, ivars, skipped, exhausted, today, prov, days_back, windows, wi, attempt, df, merged,
                   last_scale, skip_events, calls, budget_low>>

NextStitch ==
    \/ TimePasses
    \/ BudgetAbort
    \/ AttemptReturns
    \/ AttemptReturnsEmpty
    \/ AttemptRaises
    \/ SkipWindow
    \/ MergeWindow
    \/ StitchReturn

SpecStitch == InitStitch /\ [][NextStitch]_vars

-----------------------------------------------------------------------------
(* Claims about stitch_daily *)

OneInnerWindowFailed ==
    /\ NoWindows >= 3
    /\ Cardinality(exhausted) = 1
    /\ skipped = exhausted
    /\ \A i \in exhausted : 1 < i /\ i < NoWindows

GapFree(f) ==
    /\ ~IsEmpty(f)
    /\ DOMAIN f = SetMin(DOMAIN f)..SetTop(DOMAIN f)
    /\ \A d \in DOMAIN f : \A c \in SeqToSet(StitchTerms) :
          /\ c \in DOMAIN f[d]
          /\ ~IsNaN(f[d][c])
          /\ RLe(RInt(0), f[d][c])
          /\ RLe(f[d][c], RInt(100))

\* C9: when exactly one non-edge window of a several-window horizon failed all
\* its retries, the returned series has a value in [0,100] for every term on
\* every calendar day from its first to its last day, and exactly one
\* skipped-window event was recorded.
C9_OneFailedWindowGapFree ==
    (s_pc = "done" /\ OneInnerWindowFailed) =>
        (GapFree(result) /\ skip_events = 1)

\* such a run has returned, and the days of the failed window that no other
\* window covers are in the result
C9_Witness ==
    /\ s_pc = "done"
    /\ OneInnerWindowFailed
    /\ days_back = 400
    /\ \E i \in exhausted : \E d \in windows[i][1]..windows[i][2] :
          /\ d \in DOMAIN result
          /\ d \notin DOMAIN merged

\* the days both frames have
Overlap(m, f) == DOMAIN m \cap DOMAIN f

\* frame f is k times frame m on every overlapping day
Proportional(m, f, k) ==
    \A d \in Overlap(m, f) : \A c \in Columns(m) \cap Columns(f) :
        f[d][c] = RMul(k, m[d][c])

AnchorPositiveDays(m, f) ==
    {d \in Overlap(m, f) : RGt(m[d][StitchTerms[1]], RInt(0))}

\* the k of the precondition of C10, read off the anchor on one overlap day
OverlapRatio(m, f) ==
    LET d == SetMin(AnchorPositiveDays(m, f))
    IN  RDiv(f[d][StitchTerms[1]], m[d][StitchTerms[1]])

C10_Pre ==
    /\ s_pc = "merge"
    /\ ~IsEmpty(df)
    /\ ~IsEmpty(merged)
    /\ Cardinality(AnchorPositiveDays(merged, df)) >= 3
    /\ RGt(OverlapRatio(merged, df), RInt(0))
    /\ Proportional(merged, df, OverlapRatio(merged, df))

\* C10: when the new window is k times (k > 0) the merged series on every
\* overlapping day and the anchor is positive on at least 3 of them, the merge
\* uses the scale 1/k and leaves the values of the overlapping days as they
\* were.
C10_ScaleCorrection ==
    [][(C10_Pre /\ wi' = wi + 1) =>
         /\ last_scale' = RDiv(RInt(1), OverlapRatio(merged, df))
         /\ \A d \in Overlap(merged, df) : merged'[d] = merged[d]]_vars

\* a merge has just rescaled a window that was twice or half the merged series
C10_Witness ==
    /\ s_pc \in {"fetch", "final"}
    /\ ~IsEmpty(merged)
    /\ ~IsEmpty(df)
    /\ last_scale \in {<<1, 2>>, <<2, 1>>}

-----------------------------------------------------------------------------
(* The ingestion handler: configuration, registry, planning, fetch strategy *)

INCR_OVERLAP_DAYS == 120
MAX_KEYS_PER == 5
FAST_MODE == TRUE

\* "today 1-m": the days the provider answers the fast query with
FastMonthDays == 30

Slugs(groups) == [i \in DOMAIN groups |-> groups[i].slug]

RECURSIVE Dedupe(_, _)
Dedupe(ts, seen) ==
    IF ts = <<>> THEN <<>>
    ELSE IF Head(ts) \in seen THEN Dedupe(Tail(ts), seen)
    ELSE <<Head(ts)>> \o Dedupe(Tail(ts), seen \cup {Head(ts)})

RECURSIVE Flatten(_)
Flatten(groups) ==
    IF groups = <<>> THEN <<>> ELSE Head(groups).terms \o Flatten(Tail(groups))

\* "dedupe terms (first = anchor)"
all_terms(groups) == Dedupe(Flatten(groups), {})

\* a mutant: MIN(day) instead of MAX(day)
get_last_days_min(tbl, slugs) ==
    Series([sl \in {x \in SeqToSet(slugs) : DOMAIN tbl[x] # {}} |-> SetMin(DOMAIN tbl[sl])])

\* SELECT keyword_slug, MAX(day) ... GROUP BY keyword_slug
get_last_days(tbl, slugs) ==
    Series([sl \in {x \in SeqToSet(slugs) : DOMAIN tbl[x] # {}} |-> SetTop(DOMAIN tbl[sl])])

\* a mutant: every slug is planned as a new one
start_slug_new(end_day, last_days, sl) == end_day - DAYS_BACK

start_slug(end_day, last_days, sl) ==
    IF sl \in DOMAIN last_days
    THEN Max(end_day - DAYS_BACK, last_days[sl] - INCR_OVERLAP_DAYS)
    ELSE end_day - DAYS_BACK

effective_days_back(end_day, last_days, slugs) ==
    LET starts_needed == {start_slug(end_day, last_days, sl) : sl \in SeqToSet(slugs)}
        start_overall == IF starts_needed # {} THEN SetMin(starts_needed)
                         ELSE end_day - DAYS_BACK
        computed_days_back == Max(1, end_day - start_overall)
    IN  Min(DAYS_BACK, computed_days_back)

\* fetch_fast: the frame of the fast query, or an empty frame when the
\* attempts and the direct fallback all fail
fetch_fast(terms) ==
    IF prov.fast_ok THEN ProviderQuery(terms, today - FastMonthDays, today) ELSE EmptyDF

\* fetch_window_with_retry as a function of the provider: the window's frame,
\* or an empty frame after the retries
fetch_window_with_retry(terms, w) ==
    IF prov.win_ok THEN ProviderQuery(terms, w[1], w[2]) ELSE EmptyDF

RECURSIVE StitchLoop(_, _, _, _)
StitchLoop(terms, ws, i, m) ==
    IF i > Len(ws) THEN m
    ELSE LET f == fetch_window_with_retry(terms, ws[i])
         IN  StitchLoop(terms, ws, i + 1, IF IsEmpty(f) THEN m ELSE StitchMerge(terms, m, f))

stitch_daily(terms, end_day, db) ==
    FinalPass(StitchLoop(terms, StitchWindows(end_day, db), 1, EmptyDF))

\* fast, then (if empty) stitched
FastThenStitched(terms, end_day, db) ==
    IF FAST_MODE
    THEN LET f == fetch_fast(terms)
         IN  IF IsEmpty(f) THEN stitch_daily(terms, end_day, db) ELSE f
    ELSE stitch_daily(terms, end_day, db)

\* one iteration of the loop over the chunks, for a non-empty batch frame
BatchMerge(anchor, base_df, f) ==
    IF IsEmpty(base_df) THEN f
    ELSE LET scale == IF anchor \in Columns(base_df) /\ anchor \in Columns(f)
                      THEN overlap_scale_factor(Column(base_df, anchor), Column(f, anchor))
                      ELSE RInt(1)
         IN  ConcatMean(base_df, Scaled(f, scale))

RECURSIVE BatchLoop(_, _, _, _, _)
BatchLoop(anchor, others, end_day, db, base_df) ==
    IF others = <<>> THEN base_df
    ELSE LET f == FastThenStitched(<<anchor, Head(others)>>, end_day, db)
         IN  BatchLoop(anchor, Tail(others), end_day, db,
                       IF IsEmpty(f) THEN base_df ELSE BatchMerge(anchor, base_df, f))

fetch_all_terms_batched_with_anchor(terms, anchor, end_day, db) ==
    BatchLoop(anchor, SelectSeq(terms, LAMBDA t : t # anchor), end_day, db, EmptyDF)

\* (E) Fetch strategy
FetchTerms(terms, end_day, db) ==
    IF Len(terms) <= MAX_KEYS_PER
    THEN FastThenStitched(terms, end_day, db)
    ELSE fetch_all_terms_batched_with_anchor(terms, terms[1], end_day, db)

-----------------------------------------------------------------------------
(* Aggregation, filter, upsert *)

\* a mutant: the row-wise min
RowMax_min(row, cols) ==
    LET vals == {row[c] : c \in cols} \ {NaN}
    IN  IF vals = {} THEN NaN ELSE CHOOSE v \in vals : \A x \in vals : RLe(v, x)

\* row-wise max over the present values (NaN when there is none)
RECURSIVE RowMax(_, _)
RowMax(row, cols) ==
    IF cols = {} THEN NaN
    ELSE LET c == CHOOSE x \in cols : TRUE
             rest == RowMax(row, cols \ {c})
         IN  IF IsNaN(row[c]) THEN rest
             ELSE IF IsNaN(rest) THEN row[c]
             ELSE IF RGt(row[c], rest) THEN row[c] ELSE rest

groups_from_terms_df(tdf, groups) ==
    LET present == {i \in DOMAIN groups :
                       SeqToSet(groups[i].terms) \cap Columns(tdf) # {}}
    IN  Frame([d \in DOMAIN tdf |->
            [sl \in {groups[i].slug : i \in present} |->
                LET i == CHOOSE j \in present : groups[j].slug = sl
                IN  RowMax(tdf[d], SeqToSet(groups[i].terms) \cap Columns(tdf))]])

\* a mutant: the day of the last persisted row is let through (day < ld masked)
Masked_strict(d, ld) == d < ld

\* a mutant: nothing is masked
Masked_none(d, ld) == FALSE

\* mask.loc[day_index <= ld, slug] = False
Masked(d, ld) == d <= ld

filter_new_rows_per_slug(gdf, last_days) ==
    LET w == Frame([d \in DOMAIN gdf |-> [sl \in DOMAIN gdf[d] |->
                 IF sl \in DOMAIN last_days /\ Masked(d, last_days[sl])
                 THEN NaN ELSE gdf[d][sl]]])
        cols == {sl \in Columns(gdf) : \E d \in DOMAIN w : ~IsNaN(w[d][sl])}
        rows == {d \in DOMAIN w : \E sl \in cols : ~IsNaN(w[d][sl])}
    IN  IF IsEmpty(gdf) THEN gdf
        ELSE Frame([d \in rows |-> [sl \in cols |-> w[d][sl]]])

\* 1 if (day >= (date.today() - timedelta(days=1))) else 0
IsPartial(d) == IF d >= today - 1 THEN 1 ELSE 0

\* the row one execute() of upsert_rows writes
UpsertRow(val, d) ==
    [interest |-> PyRound(val), is_partial |-> IsPartial(d), ingested_at |-> today]

\* position of a slug among the columns of the frame (the order of groups_dict)
ColPos(groups, sl) == CHOOSE i \in DOMAIN groups : groups[i].slug = sl

\* the cells upsert_rows writes, in its order (day by day, slug by slug),
\* before it reaches cell (kd, kp); the whole frame when kd is past its days
CellsBefore(gdf, groups, kd, kp) ==
    {c \in {<<sl, d>> : sl \in Columns(gdf), d \in DOMAIN gdf} :
        /\ ~IsNaN(gdf[c[2]][c[1]])
        /\ (c[2] < kd \/ (c[2] = kd /\ ColPos(groups, c[1]) < kp))}

\* INSERT ... ON DUPLICATE KEY UPDATE, for the cells written
Upserted(tbl, gdf, cells) ==
    [sl \in DOMAIN tbl |->
        [d \in DOMAIN tbl[sl] \cup {c[2] : c \in {x \in cells : x[1] = sl}} |->
            IF <<sl, d>> \in cells THEN UpsertRow(gdf[d][sl], d) ELSE tbl[sl][d]]]

-----------------------------------------------------------------------------
(* The ingestion handler as a process: runs, calendar, provider *)

IngestSpike == StartDay - 140

\* the provider: the fast query answered; the fast query failing and the
\* windows answered (with and without a burst of the anchor term); nothing
\* answered
IngestProvs ==
    {[spike |-> -1, fast_ok |-> TRUE, win_ok |-> TRUE],
     [spike |-> -1, fast_ok |-> FALSE, win_ok |-> TRUE],
     [spike |-> IngestSpike, fast_ok |-> FALSE, win_ok |-> TRUE],
     [spike |-> -1, fast_ok |-> FALSE, win_ok |-> FALSE]}

\* registries: none active; two groups of three terms; two groups of six terms
Registries ==
    <<<<>>,
      <<[slug |-> "a", terms |-> <<"t1", "t2">>], [slug |-> "b", terms |-> <<"t3">>]>>,
      <<[slug |-> "a", terms |-> <<"t1", "t2", "t3">>],
        [slug |-> "b", terms |-> <<"t4", "t5", "t6">>]>>>>

\* deployments: DAYS_BACK and the registry
Deployments ==
    {<<30, Registries[1]>>, <<30, Registries[2]>>, <<150, Registries[2]>>, <<30, Registries[3]>>}
DayJumps == {1}

\* the table an outage has left: the last run was StaleDays days ago and
\* wrote slug a for the 30 days before it, the last two of them as partial
StaleDays == 45
StaleTable ==
    [sl \in AllSlugs |->
        IF sl = "a"
        THEN Series([d \in (StartDay - StaleDays - 30)..(StartDay - StaleDays) |->
                 [interest |-> IF d % 2 = 0 THEN 40 ELSE 60,
                  is_partial |-> IF d >= StartDay - StaleDays - 1 THEN 1 ELSE 0,
                  ingested_at |-> StartDay - StaleDays]])
        ELSE <<>>]
IngestTables == {EmptyTable, StaleTable}

StitchIdle ==
    /\ s_pc = "idle"
    /\ days_back = 0
    /\ windows = <<>>
    /\ wi = 0
    /\ attempt = 0
    /\ df = EmptyDF
    /\ merged = EmptyDF
    /\ last_scale = RInt(1)
    /\ skip_events = 0
    /\ calls = 0
    /\ budget_low = FALSE
    /\ skipped = {}
    /\ exhausted = {}
    /\ result = EmptyDF

InitIngest ==
    /\ today = StartDay
    /\ prov \in IngestProvs
    /\ \E dep \in Deployments : DAYS_BACK = dep[1] /\ groups_dict = dep[2]
    /\ table \in IngestTables
    /\ i_pc = "idle"
    /\ plan = NoPlan
    /\ df_terms = EmptyDF
    /\ gdf_to_write = EmptyDF
    /\ ev = "init"
    /\ run = NoRun
    /\ expected = EmptyTable
    /\ kills = 0
    /\ advances = 0
    /\ StitchIdle
    /\ ForecastIdle
    /\ CallsIdle
    /\ FetchIdle

\* the handler returns: its locals are gone, the return value is recorded
Returns(r) ==
    /\ i_pc' = "idle"
    /\ plan' = NoPlan
    /\ df_terms' = EmptyDF
    /\ gdf_to_write' = EmptyDF
    /\ ev' = "run"
    /\ run' = [r EXCEPT !.after = ev, !.last_days = plan.last_days,
                        !.effective_days_back = plan.effective_days_back]
    /\ expected' = EmptyTable

AllCells(gdf) == {c \in {<<sl, d>> : sl \in Columns(gdf), d \in DOMAIN gdf} : ~IsNaN(gdf[c[2]][c[1]])}

\* (B), (C): the registry is read; without active keywords the handler
\* returns 400, else it reads the last days and plans the horizon
RunStart ==
    /\ i_pc = "idle"
    /\ IF groups_dict = <<>>
       THEN /\ Returns([NoRun EXCEPT !.statusCode = 400, !.note = "no_active_keywords"])
            /\ UNCHANGED table
       ELSE /\ i_pc' = "fetch"
            /\ plan' = [last_days |-> get_last_days(table, Slugs(groups_dict)),
                        effective_days_back |->
                            effective_days_back(today, get_last_days(table, Slugs(groups_dict)),
                                                Slugs(groups_dict))]
            /\ UNCHANGED <<table, df_terms, gdf_to_write, ev, run, expected>>
    /\ UNCHANGED <<rvars, cvars, fvars, today, prov, svars, DAYS_BACK, groups_dict, kills, advances>>

\* (E): the fetch strategy
RunFetch ==
    /\ i_pc = "fetch"
    /\ df_terms' = FetchTerms(all_terms(groups_dict), today, plan.effective_days_back)
    /\ i_pc' = "aggregate"
    /\ UNCHANGED <<table, plan, gdf_to_write, ev, run, expected>>
    /\ UNCHANGED <<rvars, cvars, fvars, today, prov, svars, DAYS_BACK, groups_dict, kills, advances>>

\* the rate-limit return, else (F), (G): aggregation and filter
RunAggregate ==
    /\ i_pc = "aggregate"
    /\ IF IsEmpty(df_terms)
       THEN Returns([NoRun EXCEPT !.statusCode = 200, !.note = "rate_limited_or_no_data"])
       ELSE /\ gdf_to_write' =
                   filter_new_rows_per_slug(groups_from_terms_df(df_terms, groups_dict),
                                            plan.last_days)
            /\ i_pc' = "upsert"
            /\ UNCHANGED <<plan, df_terms, ev, run, expected>>
    /\ UNCHANGED table
    /\ UNCHANGED <<rvars, cvars, fvars, today, prov, svars, DAYS_BACK, groups_dict, kills, advances>>

\* the no_new_rows return, else (H): the upsert of every cell, and the return
RunUpsert ==
    /\ i_pc = "upsert"
    /\ IF IsEmpty(gdf_to_write)
       THEN /\ Returns([NoRun EXCEPT !.statusCode = 200, !.note = "no_new_rows"])
            /\ UNCHANGED table
       ELSE /\ Returns([NoRun EXCEPT !.statusCode = 200,
                                     !.upserts = AllCells(gdf_to_write),
                                     !.rows_upserted = Cardinality(AllCells(gdf_to_write))])
            /\ table' = Upserted(table, gdf_to_write, AllCells(gdf_to_write))
    /\ UNCHANGED <<rvars, cvars, fvars, today, prov, svars, DAYS_BACK, groups_dict, kills, advances>>

\* the handler is terminated from outside before it executes the upsert of
\* cell (kd, kp), kd the first or the last day it writes: a strict prefix of
\* its upserts has been executed
RunKilled(last, kp) ==
    /\ i_pc = "upsert"
    /\ kills < MaxKills
    /\ ~IsEmpty(gdf_to_write)
    /\ kp \in DOMAIN groups_dict
    /\ LET kd == IF last THEN SetTop(DOMAIN gdf_to_write) ELSE SetMin(DOMAIN gdf_to_write)
       IN  /\ CellsBefore(gdf_to_write, groups_dict, kd, kp) # AllCells(gdf_to_write)
           /\ run' = [NoRun EXCEPT !.after = ev, !.last_days = plan.last_days,
                                   !.effective_days_back = plan.effective_days_back,
                                   !.upserts = CellsBefore(gdf_to_write, groups_dict, kd, kp)]
           /\ table' = Upserted(table, gdf_to_write,
                                CellsBefore(gdf_to_write, groups_dict, kd, kp))
    /\ expected' = Upserted(table, gdf_to_write, AllCells(gdf_to_write))
    /\ i_pc' = "idle"
    /\ plan' = NoPlan
    /\ df_terms' = EmptyDF
    /\ gdf_to_write' = EmptyDF
    /\ ev' = "killed"
    /\ kills' = kills + 1
    /\ UNCHANGED <<rvars, cvars, fvars, today, prov, svars, DAYS_BACK, groups_dict, advances>>

\* the calendar advances between two runs
AdvanceDay(j) ==
    /\ i_pc = "idle"
    /\ advances < MaxAdvances
    /\ today' = today + j
    /\ advances' = advances + 1
    /\ ev' = "advance"
    /\ expected' = EmptyTable
    /\ UNCHANGED <<rvars, cvars, fvars, prov, svars, DAYS_BACK, groups_dict, table, i_pc, plan, df_terms,
                   gdf_to_write, run, kills>>

NextIngest ==
    \/ RunStart
    \/ RunFetch
    \/ RunAggregate
    \/ RunUpsert
    \/ \E last \in BOOLEAN, kp \in 1..2 : RunKilled(last, kp)
    \/ \E j \in DayJumps : AdvanceDay(j)

SpecIngest == InitIngest /\ [][NextIngest]_vars

-----------------------------------------------------------------------------
(* Properties of the ingestion handler *)

Keys(tbl) == UNION {{<<sl, d>> : d \in DOMAIN tbl[sl]} : sl \in DOMAIN tbl}
Interest(tbl) == [sl \in DOMAIN tbl |-> [d \in DOMAIN tbl[sl] |-> tbl[sl][d].interest]]
IsRunStep == i_pc # "idle" /\ i_pc' = "idle"

\* C1: a run that starts when a slug's last persisted day is D issues no
\* upsert for that slug with day <= D, and every row of the slug stored at
\* the start (all have day <= D) is the same row (interest, is_partial,
\* ingested_at) after the run.
C1_NoUpsertAtOrBeforeLastDay ==
    [][IsRunStep =>
         \A sl \in AllSlugs :
            DOMAIN table[sl] # {} =>
               LET D == SetTop(DOMAIN table[sl])
               IN  /\ \A c \in run'.upserts : c[1] = sl => c[2] > D
                   /\ \A d \in DOMAIN table[sl] :
                         d \in DOMAIN table'[sl] /\ table'[sl][d] = table[sl][d]]_vars

\* an incremental run that found a last day for a slug and wrote rows for it
C1_Witness ==
    /\ ev = "run"
    /\ \E c \in run.upserts : c[1] \in DOMAIN run.last_days

\* C2 (as stated): every interest value in the table is within 0..100,
\* whichever fetch path produced it.
C2_InterestInRange ==
    \A sl \in AllSlugs : \A d \in DOMAIN table[sl] :
        table[sl][d].interest >= 0 /\ table[sl][d].interest <= 100

C5_OldRowsNeverPartial ==
    \A sl \in AllSlugs : \A d \in DOMAIN table[sl] :
        d < today - 1 => table[sl][d].is_partial = 0

-----------------------------------------------------------------------------
(* The forecasters.  The fitted weights and the history enter through the   *)
(* values the regression produces at each step of the horizon: any float,   *)
(* NaN and the infinities (<<1, 0>>, <<-1, 0>>) included.                    *)

MIN_TRAIN_DAYS == 120

PosInf == <<1, 0>>
NegInf == <<-1, 0>>
IsFinite(x) == x[2] # 0

\* a < b on floats: False when either is NaN
FLt(a, b) ==
    /\ a # NaN
    /\ b # NaN
    /\ IF a[2] = 0 /\ b[2] = 0 THEN a[1] < b[1] ELSE a[1] * b[2] < b[1] * a[2]

\* Python's min(a, b) and max(a, b): a unless b is smaller (greater)
PyMin(a, b) == IF FLt(b, a) THEN b ELSE a
PyMax(a, b) == IF FLt(a, b) THEN b ELSE a

\* yhat = min(clip_minmax[1], max(clip_minmax[0], yhat))
ClipGate(yhat) == PyMin(RInt(100), PyMax(RInt(0), yhat))

EPS_ZERO == <<1, 1000000000>>

\* abs(v) < EPS_ZERO and v > EPS_ZERO, without leaving the 32-bit integers
BelowEpsZero(v) == Abs(v[1]) <= (v[2] - 1) \div EPS_ZERO[2]
AboveEpsZero(v) == v[1] > v[2] \div EPS_ZERO[2]
DYN_TAU_K == R(3, 10)

\* the trailing run of values with abs(v) < EPS_ZERO
RECURSIVE ZeroRun(_)
ZeroRun(vals) ==
    IF vals # <<>> /\ BelowEpsZero(vals[Len(vals)])
    THEN 1 + ZeroRun(SubSeq(vals, 1, Len(vals) - 1))
    ELSE 0

\* trailing_zero_run(vals, eps=EPS_ZERO, cap=30): min(r, cap), which is the
\* run within the last cap values
trailing_zero_run(vals) ==
    Min(ZeroRun(SubSeq(vals, Max(1, Len(vals) - 29), Len(vals))), 30)

\* the last index in lo..hi whose value is above EPS_ZERO, 0 when there is none
RECURSIVE LastAbove(_, _, _)
LastAbove(vals, lo, hi) ==
    IF lo > hi THEN 0
    ELSE IF lo = hi THEN (IF AboveEpsZero(vals[lo]) THEN lo ELSE 0)
    ELSE IF LastAbove(vals, (lo + hi) \div 2 + 1, hi) # 0
         THEN LastAbove(vals, (lo + hi) \div 2 + 1, hi)
         ELSE LastAbove(vals, lo, (lo + hi) \div 2)

\* row["prev_nz"]: the last value above EPS_ZERO, 0.0 when there is none
prev_nz(vals) ==
    IF LastAbove(vals, 1, Len(vals)) = 0 THEN RInt(0)
    ELSE vals[LastAbove(vals, 1, Len(vals))]

\* np.max over a sequence of values
SeqMax(vals) ==
    CHOOSE v \in {vals[i] : i \in DOMAIN vals} : \A i \in DOMAIN vals : RLe(vals[i], v)

\* row["max14"]
max14(vals) ==
    IF Len(vals) >= 14 THEN SeqMax(SubSeq(vals, Len(vals) - 13, Len(vals))) ELSE SeqMax(vals)

\* soft_cap = max(row["max14"]*1.25, row["prev_nz"]*1.5, 10.0)
soft_cap(vals) ==
    PyMax(PyMax(RMul(max14(vals), R(5, 4)), RMul(prev_nz(vals), R(3, 2))), RInt(10))

\* a mutant: the threshold falls as the zero run grows
tau_dyn_falling(tau, zr) ==
    RClip(RSub(tau, RMul(DYN_TAU_K, R(zr, zr + 4))), R(1, 20), R(19, 20))

\* tau_dyn = clip(tau + dyn_tau_k * (zr / (zr + 4.0)), 0.05, 0.95)
tau_dyn(tau, zr) ==
    RClip(RAdd(tau, RMul(DYN_TAU_K, R(zr, zr + 4))), R(1, 20), R(19, 20))

\* a mutant: no cap
CapSoft_none(yhat, cap) == yhat

\* yhat = min(yhat, soft_cap)
CapSoft(yhat, cap) == PyMin(yhat, cap)

\* if p < tau_dyn
Gated(p, t) == FLt(p, t)

\* one step of recursive_forecast_gate from the gate probability p, the
\* threshold tau_dyn, from_logit_y(zhat) and soft_cap: the value before the
\* final clip
GateBeforeClip(x) ==
    LET s == RClip(RDiv(RSub(x.p, x.tau_dyn), PyMax(Eps6, RSub(RInt(1), x.tau_dyn))),
                   RInt(0), RInt(1))
    IN  IF Gated(x.p, x.tau_dyn) THEN RInt(0)
        ELSE CapSoft(RMul(x.yhat_raw, s), x.soft_cap)

GateStep(x) == ClipGate(GateBeforeClip(x))

\* the locals of step i of the loop, from the running history and the
\* regression's outputs o = [p, yhat_raw] for the step
GateLocals(vals, tau, o) ==
    [p |-> o.p, yhat_raw |-> o.yhat_raw,
     tau_dyn |-> tau_dyn(tau, trailing_zero_run(vals)),
     soft_cap |-> soft_cap(vals)]

\* the loop of recursive_forecast_gate: the locals of every step, each
\* prediction appended to the history before the next step
RECURSIVE GateLoop(_, _, _)
GateLoop(vals, tau, os) ==
    IF os = <<>> THEN <<>>
    ELSE LET x == GateLocals(vals, tau, Head(os))
         IN  <<x>> \o GateLoop(Append(vals, GateStep(x)), tau, Tail(os))

recursive_forecast_gate(y_hist, tau, os) ==
    LET xs == GateLoop(y_hist, tau, os) IN [i \in DOMAIN xs |-> GateStep(xs[i])]

\* a mutant: the ridge prediction is not clipped
ClipRidge_none(yhat) == yhat

\* yhat = max(0.0, min(100.0, yhat))
ClipRidge(yhat) == PyMax(RInt(0), PyMin(RInt(100), yhat))

\* train_and_forecast: persistence for an ultra-flat series, else the clipped
\* ridge predictions
train_and_forecast(flat, last, raws) ==
    IF flat THEN [i \in 1..FORECAST_DAYS |-> PyMax(RInt(0), PyMin(RInt(100), last))]
    ELSE [i \in DOMAIN raws |-> ClipRidge(raws[i])]

\* upsert_forecasts executes rows 1..n; int(round(yhat)) raises on NaN and on
\* the infinities, the gateway may raise after j rows
RowsExecuted(preds, j) ==
    LET bad == {i \in DOMAIN preds : ~IsFinite(preds[i])}
    IN  Min(j, IF bad = {} THEN Len(preds) ELSE SetMin(bad) - 1)

ForecastRows(preds, n) == [i \in 1..n |-> PyRound(preds[i])]

\* what the regression may produce
RidgeOutputs == {NaN, NegInf, PosInf, R(1, 2), R(3, 2), RInt(250)}
GateInputs ==
    {[p |-> RInt(0), yhat_raw |-> RInt(100)],
     [p |-> RInt(1), yhat_raw |-> RInt(100)],
     [p |-> NaN, yhat_raw |-> RInt(3)],
     [p |-> R(5, 8), yhat_raw |-> NaN],
     [p |-> R(1, 2), yhat_raw |-> RInt(100)]}
\* tau = float(np.clip(tau0*f, 0.25, 0.90))
GateTaus == {R(1, 4), R(9, 10)}
ActiveSlugLists == {<<>>, <<"a">>, <<"a", "b">>}

HISTORY_DAYS == 420

\* a pandas Series on a daily index: the first day and the values
EmptySeries == [start |-> 0, values |-> <<>>]
SeriesLen(s) == Len(s.values)
SeriesLastDay(s) == s.start + Len(s.values) - 1

\* load_daily_series: the rows of the slug with day BETWEEN end_day -
\* history_days AND end_day, reindexed to every day from the first to the last
\* of them and interpolated
load_daily_series(tbl, sl, end_day) ==
    LET rows == IF sl \in DOMAIN tbl
                THEN {d \in DOMAIN tbl[sl] : d >= end_day - HISTORY_DAYS /\ d <= end_day}
                ELSE {}
    IN  IF rows = {} THEN EmptySeries
        ELSE LET lo == SetMin(rows)
                 hi == SetTop(rows)
                 s == Interpolated(Series([d \in lo..hi |->
                          IF d \in rows THEN RInt(tbl[sl][d].interest) ELSE NaN]))
             IN  [start |-> lo, values |-> Series([i \in 1..(hi - lo + 1) |-> s[lo + i - 1]])]

\* float(np.nanstd(y.values)) < 1e-6, for a series interpolated from integers
IsFlat(s) == Cardinality({s.values[i] : i \in DOMAIN s.values}) <= 1

\* the daily table as ingestion has left it before a forecast run
HistoryRow(v) == [interest |-> v, is_partial |-> 0, ingested_at |-> StartDay]

\* a row for every day lo..hi
DenseHistory(lo, hi, even, odd) ==
    Series([d \in lo..hi |-> HistoryRow(IF d % 2 = 0 THEN even ELSE odd)])

\* a row for day lo and a row for day hi
SparseHistory(lo, hi) == Series([d \in {lo, hi} |-> HistoryRow(10)])

\* 150 days of zeros and 120 days up to today; two rows 150 days apart and
\* 119 days; 120 days ending 11 days ago and no row; 120 days of 400 (as the
\* anchor-batched path can leave them) and rows that are mostly older than
\* the history window
Histories ==
    {[a |-> DenseHistory(StartDay - 150, StartDay - 1, 0, 0),
      b |-> DenseHistory(StartDay - MIN_TRAIN_DAYS + 1, StartDay, 40, 60)],
     [a |-> SparseHistory(StartDay - 150, StartDay - 1),
      b |-> DenseHistory(StartDay - MIN_TRAIN_DAYS + 1, StartDay - 1, 40, 60)],
     [a |-> DenseHistory(StartDay - MIN_TRAIN_DAYS - 10, StartDay - 11, 40, 60),
      b |-> <<>>],
     [a |-> DenseHistory(StartDay - MIN_TRAIN_DAYS, StartDay - 1, 400, 400),
      b |-> DenseHistory(StartDay - HISTORY_DAYS - 80, StartDay - HISTORY_DAYS + 20, 40, 60)]}

InitForecast ==
    /\ today = StartDay
    /\ prov = [spike |-> -1, fast_ok |-> TRUE, win_ok |-> TRUE]
    /\ StitchIdle
    /\ IngestHandlerIdle
    /\ CallsIdle
    /\ FetchIdle
    /\ table \in Histories
    /\ variant \in {"glue", "lambda"}
    /\ active_slugs \in ActiveSlugLists
    /\ f_pc = "loop"
    /\ si = 1
    /\ trained = 0
    /\ skipped_slugs = <<>>
    /\ total_rows = 0
    /\ touched_slugs = <<>>
    /\ forecasts = [sl \in SeqToSet(active_slugs) |-> <<>>]
    /\ pushed = FALSE
    /\ series = EmptySeries

\* at the head of the loop body, before load_daily_series
InLoop == f_pc = "loop" /\ si <= Len(active_slugs)

\* a mutant: the length check is gone
Loaded_unchecked == f_pc = "loaded"

\* past the length check
Loaded == f_pc = "loaded" /\ SeriesLen(series) >= MIN_TRAIN_DAYS

\* a mutant: the exception leaves the loop
AfterException_abort(i) == Len(active_slugs) + 1

\* except Exception: the loop goes on with the next slug
AfterException(i) == i + 1

\* the except branch: the slug is recorded in the skip list
SlugSkipped(reason, next) ==
    /\ skipped_slugs' = Append(skipped_slugs, [slug |-> active_slugs[si], reason |-> reason])
    /\ si' = next
    /\ f_pc' = "loop"
    /\ series' = EmptySeries

\* load_daily_series raises
SlugLoadRaises ==
    /\ InLoop
    /\ SlugSkipped("error", AfterException(si))
    /\ UNCHANGED <<variant, active_slugs, trained, total_rows, touched_slugs, forecasts, pushed>>
    /\ UNCHANGED <<rvars, cvars, today, prov, svars, ivars>>

\* series = load_daily_series(conn, GEO, slug, end_day, HISTORY_DAYS)
SlugLoad ==
    /\ InLoop
    /\ series' = load_daily_series(table, active_slugs[si], today)
    /\ f_pc' = "loaded"
    /\ UNCHANGED <<variant, active_slugs, si, trained, skipped_slugs, total_rows, touched_slugs,
                   forecasts, pushed>>
    /\ UNCHANGED <<rvars, cvars, today, prov, svars, ivars>>

\* len(series) < MIN_TRAIN_DAYS: skipped with the length, continue
SlugInsufficient ==
    /\ f_pc = "loaded"
    /\ SeriesLen(series) < MIN_TRAIN_DAYS
    /\ skipped_slugs' = Append(skipped_slugs,
           [slug |-> active_slugs[si], reason |-> "insufficient_history",
            n |-> SeriesLen(series)])
    /\ si' = si + 1
    /\ f_pc' = "loop"
    /\ series' = EmptySeries
    /\ UNCHANGED <<variant, active_slugs, trained, total_rows, touched_slugs, forecasts, pushed>>
    /\ UNCHANGED <<rvars, cvars, today, prov, svars, ivars>>

\* forecast_series_two_stage / train_and_forecast raises
SlugTrainRaises ==
    /\ Loaded
    /\ SlugSkipped("error", AfterException(si))
    /\ UNCHANGED <<variant, active_slugs, trained, total_rows, touched_slugs, forecasts, pushed>>
    /\ UNCHANGED <<rvars, cvars, today, prov, svars, ivars>>

\* start_next = last_obs_date + timedelta(days=1)
ForecastStart(s) == SeriesLastDay(s) + 1

\* the slug's predictions are upserted, day start_next + i - 1 for prediction
\* i; the gateway raises after j rows when j < FORECAST_DAYS
SlugUpsert(preds, j) ==
    LET n == RowsExecuted(preds, j)
        sl == active_slugs[si]
        rows == ForecastRows(preds, n)
        start_next == ForecastStart(series)
    IN  /\ forecasts' = [forecasts EXCEPT ![sl] =
               [d \in DOMAIN forecasts[sl] \cup {start_next + i - 1 : i \in 1..n} |->
                   IF d - start_next + 1 \in 1..n THEN rows[d - start_next + 1]
                   ELSE forecasts[sl][d]]]
        /\ IF n = Len(preds)
           THEN /\ total_rows' = total_rows + n
                /\ touched_slugs' = IF n > 0 THEN Append(touched_slugs, sl) ELSE touched_slugs
                /\ trained' = trained + 1
                /\ si' = si + 1
                /\ f_pc' = "loop"
                /\ series' = EmptySeries
                /\ UNCHANGED skipped_slugs
           ELSE /\ SlugSkipped("error", AfterException(si))
                /\ UNCHANGED <<total_rows, touched_slugs, trained>>
        /\ UNCHANGED <<variant, active_slugs, pushed>>
        /\ UNCHANGED <<rvars, cvars, today, prov, svars, ivars>>

\* fit_zero_gate on targets none of which is above EPS_ZERO: y_bin is all
\* zero, ridge_fit solves A w = 0 and w_gate is the zero vector
ZeroGateWeights(s) == \A i \in DOMAIN s.values : ~AboveEpsZero(s.values[i])

\* a mutant: the gate is wide open on zero weights
gate_prob_zero_w_open == RInt(1)

\* gate_prob(xrow, w_gate) with w_gate = 0: z = 0, 1/(1 + exp(-0))
gate_prob_zero_w == R(1, 2)

\* the outputs the fitted gate can give on series s
GateFits(s, os) ==
    ZeroGateWeights(s) => \A i \in DOMAIN os : os[i].p = gate_prob_zero_w

SlugForecastGate(tau, os, j) ==
    /\ Loaded
    /\ variant = "glue"
    /\ GateFits(series, os)
    /\ SlugUpsert(recursive_forecast_gate(series.values, tau, os), j)

SlugForecastRidge(raws, j) ==
    /\ Loaded
    /\ variant = "lambda"
    /\ ~IsFlat(series)
    /\ SlugUpsert(train_and_forecast(FALSE, NaN, raws), j)

SlugForecastFlat(j) ==
    /\ Loaded
    /\ variant = "lambda"
    /\ IsFlat(series)
    /\ SlugUpsert(train_and_forecast(TRUE, series.values[Len(series.values)], <<>>), j)

\* after the loop: the notification (its failure is swallowed) and the return
ForecastReturn(push_ok) ==
    /\ f_pc = "loop"
    /\ si > Len(active_slugs)
    /\ f_pc' = "done"
    /\ pushed' = (push_ok /\ touched_slugs # <<>> /\ (variant = "glue" \/ total_rows > 0))
    /\ UNCHANGED <<variant, active_slugs, si, trained, skipped_slugs, total_rows, touched_slugs,
                   forecasts, series>>
    /\ UNCHANGED <<rvars, cvars, today, prov, svars, ivars>>

NextForecast ==
    \/ SlugLoadRaises
    \/ SlugLoad
    \/ SlugInsufficient
    \/ SlugTrainRaises
    \/ \E tau \in GateTaus, os \in [1..FORECAST_DAYS -> GateInputs], j \in 0..FORECAST_DAYS :
          SlugForecastGate(tau, os, j)
    \/ \E raws \in [1..FORECAST_DAYS -> RidgeOutputs], j \in 0..FORECAST_DAYS :
          SlugForecastRidge(raws, j)
    \/ \E j \in 0..FORECAST_DAYS : SlugForecastFlat(j)
    \/ \E push_ok \in BOOLEAN : ForecastReturn(push_ok)

SpecForecast == InitForecast /\ [][NextForecast]_vars

-----------------------------------------------------------------------------
(* Properties of the forecasters *)

\* C6: every forecast value in the forecast table, whichever variant wrote
\* it and whatever the regression produced, is an integer within 0..100.
C6_ForecastInRange ==
    \A sl \in DOMAIN forecasts : \A d \in DOMAIN forecasts[sl] :
        forecasts[sl][d] \in 0..100

\* a finished run that wrote both ends of the range for one slug
C6_Witness ==
    /\ f_pc = "done"
    /\ \E sl \in DOMAIN forecasts :
          /\ \E d \in DOMAIN forecasts[sl] : forecasts[sl][d] = 0
          /\ \E d \in DOMAIN forecasts[sl] : forecasts[sl][d] = 100

\* how often a slug has been counted: once per skip entry, once when trained
Counted(sl) ==
    Cardinality({i \in DOMAIN skipped_slugs : skipped_slugs[i].slug = sl})
      + Cardinality({i \in DOMAIN touched_slugs : touched_slugs[i] = sl})

\* C7: whatever raised for the active_slugs before, the loop reaches every slug:
\* the active_slugs before the loop index have each been counted exactly once (a
\* skip entry or trained), the others not yet, and the run ends only after
\* the last slug.
C7_EverySlugCountedOnce ==
    /\ f_pc \in {"loop", "loaded", "done"} =>
          /\ \A i \in DOMAIN active_slugs : Counted(active_slugs[i]) = IF i < si THEN 1 ELSE 0
          /\ trained = Len(touched_slugs)
          /\ trained + Len(skipped_slugs) = si - 1
    /\ f_pc = "done" => si = Len(active_slugs) + 1

\* a finished run in which a slug raised and a later slug was trained
C7_Witness ==
    /\ f_pc = "done"
    /\ \E i \in DOMAIN skipped_slugs, k \in DOMAIN touched_slugs :
          /\ skipped_slugs[i].reason = "error"
          /\ \E a, b \in DOMAIN active_slugs :
                a < b /\ active_slugs[a] = skipped_slugs[i].slug /\ active_slugs[b] = touched_slugs[k]

-----------------------------------------------------------------------------
(* Further properties of the ingestion handler *)

\* C11 (as stated): a run over a registry without an active keyword is a
\* clean no-op: it writes no row and returns a success status.
C11_NoKeywordsCleanNoOp ==
    (ev = "run" /\ groups_dict = <<>>) =>
        /\ run.upserts = {}
        /\ Keys(table) = {}
        /\ run.statusCode = 200

-----------------------------------------------------------------------------
(* Further properties of the forecasters *)

\* the persisted interest points of a slug inside the history window
PersistedPoints(sl) ==
    Cardinality({d \in DOMAIN table[sl] : d >= today - HISTORY_DAYS /\ d <= today})

\* C12 (as stated): a slug with fewer than MIN_TRAIN_DAYS persisted points in
\* the history window that the loop has passed without an exception has no
\* forecast row and a skip entry with reason insufficient_history and its
\* row count.
C12_FewPointsSkipped ==
    \A i \in DOMAIN active_slugs :
        LET sl == active_slugs[i]
        IN  (/\ f_pc \in {"loop", "done"}
             /\ i < si
             /\ PersistedPoints(sl) < MIN_TRAIN_DAYS
             /\ ~\E k \in DOMAIN skipped_slugs :
                   skipped_slugs[k].slug = sl /\ skipped_slugs[k].reason = "error")
            => /\ forecasts[sl] = <<>>
               /\ \E k \in DOMAIN skipped_slugs :
                     skipped_slugs[k] = [slug |-> sl, reason |-> "insufficient_history",
                                         n |-> PersistedPoints(sl)]

\* C12 (amended): a slug whose loaded series (every day from its first to
\* its last persisted day inside the history window, gaps interpolated) is
\* shorter than MIN_TRAIN_DAYS and that the loop has passed without an
\* exception is not trained, has no forecast row, and has a skip entry with
\* reason insufficient_history and the length of that series.
C12_ShortSeriesSkipped ==
    \A i \in DOMAIN active_slugs :
        LET sl == active_slugs[i]
            n == SeriesLen(load_daily_series(table, sl, today))
        IN  (/\ f_pc \in {"loop", "done"}
             /\ i < si
             /\ n < MIN_TRAIN_DAYS
             /\ ~\E k \in DOMAIN skipped_slugs :
                   skipped_slugs[k].slug = sl /\ skipped_slugs[k].reason = "error")
            => /\ forecasts[sl] = <<>>
               /\ ~\E k \in DOMAIN touched_slugs : touched_slugs[k] = sl
               /\ \E k \in DOMAIN skipped_slugs :
                     skipped_slugs[k] = [slug |-> sl, reason |-> "insufficient_history",
                                         n |-> n]

\* a finished run that skipped a slug with rows older than the history window
\* and too few days inside it
C12_Witness ==
    /\ f_pc = "done"
    /\ \E k \in DOMAIN skipped_slugs :
          /\ skipped_slugs[k].reason = "insufficient_history"
          /\ skipped_slugs[k].n > 0
          /\ Cardinality(DOMAIN table[skipped_slugs[k].slug]) > skipped_slugs[k].n

\* C13 (as stated): every forecast row is for a day later than the date of
\* the run, and a trained slug has exactly one row for each of FORECAST_DAYS
\* days.
C13_ForecastDaysInFuture ==
    /\ \A sl \in DOMAIN forecasts : \A d \in DOMAIN forecasts[sl] : d > today
    /\ \A k \in DOMAIN touched_slugs :
          Cardinality(DOMAIN forecasts[touched_slugs[k]]) = FORECAST_DAYS

\* C14 (as stated): a run that has written at least one row has published
\* its notification, and a run that has written none has published nothing;
\* for an ingestion run and for a forecast run.
C14_WritesPublishOneEvent ==
    /\ ev = "run" => (pushed <=> run.rows_upserted > 0)
    /\ f_pc = "done" => (pushed <=> total_rows > 0)

-----------------------------------------------------------------------------
(* Functions of the programs, called on their own.  A string is a sequence  *)
(* of characters.                                                            *)

Whitespace == {" "}
Alnum == {"a", "b", "B"}

\* str.lower / LOWER
lower(s) == [i \in DOMAIN s |-> IF s[i] = "B" THEN "b" ELSE s[i]]

RECURSIVE lstrip(_, _)
lstrip(s, chars) ==
    IF s # <<>> /\ Head(s) \in chars THEN lstrip(Tail(s), chars) ELSE s

RECURSIVE rstrip(_, _)
rstrip(s, chars) ==
    IF s # <<>> /\ s[Len(s)] \in chars THEN rstrip(SubSeq(s, 1, Len(s) - 1), chars) ELSE s

\* str.strip / TRIM
strip(s, chars) == rstrip(lstrip(s, chars), chars)

SlugMaxLen == 64

\* ingestion: "".join(ch if ch.isalnum() else "_" for ch in s)[:64].strip("_")
\* with s = (name or "").lower().strip()
slugify_group(name) ==
    LET s == strip(lower(name), Whitespace)
        t == [i \in DOMAIN s |-> IF s[i] \in Alnum THEN s[i] ELSE "_"]
    IN  strip(SubSeq(t, 1, Min(Len(t), SlugMaxLen)), {"_"})

\* forecast: LOWER(TRIM(REPLACE(group_name,' ','_')))
gslug(name) ==
    lower(strip([i \in DOMAIN name |-> IF name[i] = " " THEN "_" ELSE name[i]], Whitespace))

\* forecast: the slugs of the active groups, from their names
load_active_slugs(names) ==
    {s \in {strip(gslug(n), {"_"}) : n \in {x \in names : gslug(x) # <<>>}} : s # <<>>}

\* group names of up to MaxNameLen characters
MaxNameLen == 3
NameChars == {"a", "B", " ", "-", "_"}
GroupNames == UNION {[1..n -> NameChars] : n \in 0..MaxNameLen}

SlugCalls == {[fn |-> "slug", group_name |-> n] : n \in GroupNames}

Returned(name) == name \in DOMAIN ret

\* load_active_keywords derives the slug of a registry row
CallSlugifyGroup ==
    /\ call.fn = "slug"
    /\ ~Returned("slugify_group")
    /\ ret' = ret @@ ("slugify_group" :> slugify_group(call.group_name))
    /\ UNCHANGED <<call, today, prov, svars, ivars, fvars, rvars>>

\* load_active_slugs / load_active_group_slugs over the same registry row
CallLoadActiveSlugs ==
    /\ call.fn = "slug"
    /\ ~Returned("load_active_slugs")
    /\ ret' = ret @@ ("load_active_slugs" :> load_active_slugs({call.group_name}))
    /\ UNCHANGED <<call, today, prov, svars, ivars, fvars, rvars>>

\* frames of up to AggDays days over some of the terms, and two registries:
\* one with every term in one group, one with a shared and an unfetched term
AggDays == 2
AggTerms == {"t1", "t2", "t3"}
AggValues == {NaN, RInt(1), RInt(3)}
AggFrames ==
    UNION {[1..n -> [cols -> AggValues]] : n \in 1..AggDays, cols \in SUBSET AggTerms}
AggGroups ==
    {<<[slug |-> "a", terms |-> <<"t1", "t2">>], [slug |-> "b", terms |-> <<"t3">>]>>,
     <<[slug |-> "a", terms |-> <<"t1">>], [slug |-> "b", terms |-> <<"t1", "t4">>],
       [slug |-> "c", terms |-> <<"t4">>]>>}
AggCalls == {[fn |-> "groups", df_terms |-> f, groups |-> g] : f \in AggFrames, g \in AggGroups}

\* gdf = groups_from_terms_df(df_terms, groups_dict)
CallGroupsFromTermsDf ==
    /\ call.fn = "groups"
    /\ ~Returned("groups_from_terms_df")
    /\ ret' = ret @@ ("groups_from_terms_df" :> groups_from_terms_df(call.df_terms, call.groups))
    /\ UNCHANGED <<call, today, prov, svars, ivars, fvars, rvars>>

\* recursive_forecast_gate over GateSteps days: histories shorter and longer
\* than 14 days, the gate probability and from_logit_y(zhat) of each step
GateSteps == 2
GateHistories ==
    {[i \in 1..16 |-> RInt(0)],
     <<RInt(0), RInt(60), RInt(0), RInt(0)>>,
     [i \in 1..20 |-> IF i = 1 THEN RInt(60) ELSE RInt(4)],
     <<RInt(8)>>}
GateOutputs == {[p |-> pp, yhat_raw |-> y] : pp \in {RInt(0), R(1, 2), RInt(1)},
                                              y \in {RInt(0), RInt(50), RInt(100)}}
GateCalls ==
    {[fn |-> "gate", y_hist |-> h, tau |-> t, os |-> o] :
        h \in GateHistories, t \in GateTaus, o \in [1..GateSteps -> GateOutputs]}

\* preds = recursive_forecast_gate(...); before_clip is yhat of each step
\* before "if clip_minmax"
CallRecursiveForecastGate ==
    /\ call.fn = "gate"
    /\ ~Returned("recursive_forecast_gate")
    /\ ret' = ret @@ ("recursive_forecast_gate" :>
                 [preds |-> recursive_forecast_gate(call.y_hist, call.tau, call.os),
                  before_clip |->
                      LET xs == GateLoop(call.y_hist, call.tau, call.os)
                      IN  [i \in DOMAIN xs |-> GateBeforeClip(xs[i])]])
    /\ UNCHANGED <<call, today, prov, svars, ivars, fvars, rvars>>

\* one step of the loop under two thresholds: the same p, regression output
\* and cap, tau_dyn from tau and the zero-run length
ThresholdCalls ==
    {[fn |-> "step", p |-> pp, yhat_raw |-> y, soft_cap |-> c, tau |-> t, zr |-> z] :
        pp \in {RInt(0), R(1, 4), R(1, 2), R(3, 4), RInt(1)},
        y \in {RInt(0), RInt(1), RInt(100)},
        c \in {RInt(10), RInt(90)},
        t \in [1..2 -> {R(1, 4), R(1, 2), R(9, 10)}],
        z \in [1..2 -> {0, 1, 4, 30}]}

CallGateStep ==
    /\ call.fn = "step"
    /\ ~Returned("tau_dyn")
    /\ LET t == [k \in 1..2 |-> tau_dyn(call.tau[k], call.zr[k])]
       IN  ret' = ret @@ ("tau_dyn" :> t) @@
                  ("yhat" :> [k \in 1..2 |->
                      GateStep([p |-> call.p, yhat_raw |-> call.yhat_raw,
                                tau_dyn |-> t[k], soft_cap |-> call.soft_cap])])
    /\ UNCHANGED <<call, today, prov, svars, ivars, fvars, rvars>>

\* (C) of lambda_handler: the horizon planned on end_day for the slugs of a
\* registry, from the last persisted day of those that have one; DAYS_BACK
\* below, at and above INCR_OVERLAP_DAYS
PlanDaysBack == {1, 30, 200}
PlanLastDays == {StartDay - 300, StartDay - 50, StartDay - 1, StartDay}
PlanCalls ==
    {[fn |-> "plan", DAYS_BACK |-> db, slugs |-> sls, last_days |-> ld] :
        db \in PlanDaysBack,
        sls \in {<<"a">>, <<"a", "b">>},
        ld \in UNION {[S -> PlanLastDays] : S \in SUBSET AllSlugs}}

CallEffectiveDaysBack ==
    /\ call.fn = "plan"
    /\ ~Returned("effective_days_back")
    /\ ret' = ret @@ ("effective_days_back" :>
                 effective_days_back(today, call.last_days, call.slugs))
    /\ UNCHANGED <<call, today, prov, svars, ivars, fvars, rvars>>

\* the windows stitch_daily asks make_windows for, for an end day and a
\* horizon
MaxHorizon == 200
WindowCalls == {[fn |-> "windows", end_day |-> StartDay, days_back |-> db] : db \in 1..MaxHorizon}

CallMakeWindows ==
    /\ call.fn = "windows"
    /\ ~Returned("windows")
    /\ ret' = ret @@ ("windows" :> StitchWindows(call.end_day, call.days_back))
    /\ UNCHANGED <<call, today, prov, svars, ivars, fvars, rvars>>

\* forecast_series_two_stage on a series of len_s days.  Positions in the
\* series and in X_df are 0-based as in the code; a fit is named by the rows
\* of X_df it is given and its ridge penalty.
VAL_DAYS == 14
ALPHAS == <<R(1, 100), R(1, 20), R(1, 10), R(3, 10), RInt(1), RInt(3), RInt(10), RInt(30),
            RInt(100)>>
\* max(LAGS): dropna drops the rows whose lag_35 is NaN
MaxLag == 35

\* add_fourier_to_df: t = np.arange(len(df)) on the frame before dropna, so
\* the row of series position pos has t = pos
fourier_t(pos) == pos

\* make_design_matrix: series position and t of row k of X_df
make_design_matrix(len_s) ==
    [k \in 0..(len_s - MaxLag - 1) |-> [pos |-> MaxLag + k, t |-> fourier_t(MaxLag + k)]]

Split(n) ==
    LET split == IF n > VAL_DAYS + 10 THEN n - VAL_DAYS ELSE (n * 8) \div 10
    IN  Max(10, Min(split, n - 2))

\* X_train_full = X_full[:split]
TrainRows(split) == 0..(split - 1)

\* a mutant: the final forecast restarts the counter
t_start_final_zero(X_df) == 0

\* t_start=split (validation) and t_start=len(X_df) (final forecast)
t_start_val(split) == split
t_start_final(X_df) == Cardinality(DOMAIN X_df)

\* t_counter at the steps of recursive_forecast_gate
t_counters(t_start, horizon) == [j \in 1..horizon |-> t_start + (j - 1)]

\* best: the first (alpha, tau) of the grid with the lowest score keeps the
\* weights fitted inside the loop, w_gate and w_reg on X_train_full
forecast_series_two_stage(len_s, best_a) ==
    LET X_df == make_design_matrix(len_s)
        n == Cardinality(DOMAIN X_df)
        split == Split(n)
    IN  [X_df |-> X_df,
         split |-> split,
         val_first_pos |-> X_df[split - 1].pos + 1,
         val_t |-> t_counters(t_start_val(split), Min(VAL_DAYS, 7)),
         final_first_pos |-> len_s,
         final_t |-> t_counters(t_start_final(X_df), 7),
         w_gate |-> [rows |-> TrainRows(split), alpha |-> R(1, 2)],
         w_reg |-> [rows |-> TrainRows(split), alpha |-> ALPHAS[best_a]]]

TwoStageCalls ==
    {[fn |-> "two_stage", len_s |-> l, best_a |-> a] :
        l \in MIN_TRAIN_DAYS..(MIN_TRAIN_DAYS + 14), a \in DOMAIN ALPHAS}

CallForecastSeriesTwoStage ==
    /\ call.fn = "two_stage"
    /\ ~Returned("forecast_series_two_stage")
    /\ ret' = ret @@ ("forecast_series_two_stage" :>
                 forecast_series_two_stage(call.len_s, call.best_a))
    /\ UNCHANGED <<call, today, prov, svars, ivars, fvars, rvars>>

Calls ==
    SlugCalls \cup AggCalls \cup GateCalls \cup ThresholdCalls \cup PlanCalls \cup WindowCalls
        \cup TwoStageCalls

InitCalls ==
    /\ today = StartDay
    /\ prov = [spike |-> -1, fast_ok |-> TRUE, win_ok |-> TRUE]
    /\ StitchIdle
    /\ IngestHandlerStopped
    /\ table = EmptyTable
    /\ ForecastIdle
    /\ call \in Calls
    /\ DAYS_BACK = IF call.fn = "plan" THEN call.DAYS_BACK ELSE 30
    /\ ret = <<>>
    /\ FetchIdle

NextCalls ==
    \/ CallSlugifyGroup
    \/ CallLoadActiveSlugs
    \/ CallGroupsFromTermsDf
    \/ CallRecursiveForecastGate
    \/ CallGateStep
    \/ CallEffectiveDaysBack
    \/ CallMakeWindows
    \/ CallForecastSeriesTwoStage

SpecCalls == InitCalls /\ [][NextCalls]_vars

-----------------------------------------------------------------------------
(* The provider calls of one ingestion run under a time budget: fetch_fast  *)
(* (max_attempts=4), its direct fallback, and, when the fast path came back *)
(* empty, fetch_window_with_retry (max_attempts=7) for the windows of        *)
(* stitch_daily.  Time is in milliseconds; PROXY_STICKY is on (the default). *)
(* A provider call takes CallMs; when the time runs out during a call or a   *)
(* sleep the platform terminates the run.                                    *)

FastMaxAttempts == 4
FastBudgetMs == 7000
WindowBudgetMs == 5000
SafetyMarginMs == 5000
SLEEP_BETWEEN == 6000
CallMs == 2000

\* ctx_remaining_ms() < 7000, at the top of the loop of fetch_fast
FastLow(rem) == rem < FastBudgetMs

\* a mutant: the window fetch never finds the budget low
WindowLow_never(rem) == FALSE

\* ctx_remaining_ms() < 5000, at the top of the loop of fetch_window_with_retry
WindowLow(rem) == rem < WindowBudgetMs

\* remaining time at the start of the fetch
Budgets == {6000, 7000, 12000, 900000}

\* the windows of the default horizon
FetchWindows == Len(StitchWindows(StartDay, 30))

\* base * factor^attempt in ms, factor in tenths
RECURSIVE Backoff(_, _, _)
Backoff(base, factor10, a) ==
    IF a = 0 THEN base ELSE (Backoff(base, factor10, a - 1) * factor10) \div 10

\* 429: base * (1.9 ** attempt) * (0.6 + random.random() * 0.8), base = 2.5;
\* jit10 is the last factor in tenths
FastJitters == {6, 14}
Sleep429(a, jit10) == (Backoff(2500, 19, a) * jit10) \div 10

\* other exceptions: 1.5 * (attempt + 1)
SleepTransient(a) == 1500 * (a + 1)

\* sleep_s = min(sleep_s, max(0.0, (ctx_remaining_ms() - 5000) / 1000.0))
BoundedSleep(sleep_ms, rem) == Min(sleep_ms, Max(0, rem - SafetyMarginMs))

\* _sleep_with_jitter(base_sleep, 1.8, attempt): t * random.uniform(0.25, 0.75);
\* jit4 is the jitter in quarters
WindowJitters == {1, 3}
sleep_with_jitter(a, jit4) == (Backoff(SLEEP_BETWEEN, 18, a) * jit4) \div 4

\* _pytrends_attempt: the cached client on attempt 0, else a client on
\* proxies[0] (None without proxies), cached when attempt 0 finds no client
pytrends_attempt(a, px, cache) ==
    IF a = 0 /\ cache.client THEN [proxy |-> cache.proxy, cache |-> cache]
    ELSE LET proxy == IF px # <<>> THEN px[1] ELSE "None"
         IN  [proxy |-> proxy,
              cache |-> IF a = 0 THEN [client |-> TRUE, proxy |-> proxy] ELSE cache]

Event(kind, path, proxy, rem, ms) ==
    [kind |-> kind, path |-> path, window |-> fetch_window, proxy |-> proxy,
     remaining |-> rem, ms |-> ms]

InitFetch ==
    /\ today = StartDay
    /\ prov = [spike |-> -1, fast_ok |-> TRUE, win_ok |-> TRUE]
    /\ StitchIdle
    /\ IngestIdle
    /\ ForecastIdle
    /\ CallsIdle
    /\ fetch_pc = "fast"
    /\ remaining_ms \in Budgets
    /\ proxies \in {<<>>, <<"p1">>}
    /\ client_cache \in {NoClient, [client |-> TRUE, proxy |-> "p2"]}
    /\ fetch_attempt = 0
    /\ fetch_window = 0
    /\ fetch_log = <<>>

\* the run is over: the platform's deadline has passed
Killed(log) ==
    /\ fetch_pc' = "killed"
    /\ remaining_ms' = 0
    /\ fetch_log' = log
    /\ UNCHANGED <<fetch_attempt, fetch_window>>

\* stitch_daily starts on its first window
ToWindows(log, rem) ==
    /\ fetch_pc' = "window"
    /\ fetch_window' = 1
    /\ fetch_attempt' = 0
    /\ remaining_ms' = rem
    /\ fetch_log' = log

\* fetch_fast, top of the loop: "fast fetch: low time budget; aborting"
FastAbort ==
    /\ fetch_pc = "fast"
    /\ FastLow(remaining_ms)
    /\ ToWindows(Append(fetch_log, Event("low", "fast", "None", remaining_ms, 0)), remaining_ms)
    /\ UNCHANGED <<proxies, client_cache>>
    /\ UNCHANGED <<today, prov, svars, ivars, fvars, cvars>>

\* fetch_fast, one attempt: the provider call and what follows its outcome
FastAttempt(outcome, jit10) ==
    /\ fetch_pc = "fast"
    /\ ~FastLow(remaining_ms)
    /\ LET c == pytrends_attempt(fetch_attempt, proxies, client_cache)
           called == Append(fetch_log, Event("call", "fast", c.proxy, remaining_ms, CallMs))
           rem == remaining_ms - CallMs
           raw == IF outcome = "429" THEN Sleep429(fetch_attempt, jit10)
                  ELSE SleepTransient(fetch_attempt)
           sleep_ms == BoundedSleep(raw, rem)
       IN  /\ client_cache' = c.cache
           /\ IF rem <= 0 THEN Killed(called)
              ELSE IF outcome = "frame"
              THEN /\ fetch_pc' = "done"
                   /\ remaining_ms' = rem
                   /\ fetch_log' = called
                   /\ UNCHANGED <<fetch_attempt, fetch_window>>
              ELSE IF outcome = "empty" THEN ToWindows(called, rem)
              ELSE IF sleep_ms <= 0
              THEN \* break
                   /\ fetch_pc' = "fallback"
                   /\ remaining_ms' = rem
                   /\ fetch_log' = Append(called, Event("low", "fast", "None", rem, 0))
                   /\ UNCHANGED <<fetch_attempt, fetch_window>>
              ELSE /\ fetch_log' = Append(called, Event("sleep", "fast", "None", rem, sleep_ms))
                   /\ remaining_ms' = rem - sleep_ms
                   /\ fetch_attempt' = fetch_attempt + 1
                   /\ fetch_pc' = IF fetch_attempt + 1 < FastMaxAttempts THEN "fast"
                                  ELSE "fallback"
                   /\ UNCHANGED fetch_window
    /\ UNCHANGED proxies
    /\ UNCHANGED <<today, prov, svars, ivars, fvars, cvars>>

\* Fallback A: one direct try, _build_pytrends(None, ...); an exception is
\* logged and the empty frame returned
FastFallback(outcome) ==
    /\ fetch_pc = "fallback"
    /\ LET called == Append(fetch_log, Event("call", "fallback", "None", remaining_ms, CallMs))
           rem == remaining_ms - CallMs
       IN  IF rem <= 0 THEN Killed(called)
           ELSE IF outcome = "frame"
           THEN /\ fetch_pc' = "done"
                /\ remaining_ms' = rem
                /\ fetch_log' = called
                /\ UNCHANGED <<fetch_attempt, fetch_window>>
           ELSE ToWindows(called, rem)
    /\ UNCHANGED <<proxies, client_cache>>
    /\ UNCHANGED <<today, prov, svars, ivars, fvars, cvars>>

\* fetch_window_with_retry has returned; stitch_daily sleeps SLEEP_BETWEEN
\* after a window with rows and goes on with the next window
WindowReturns(log, rem, pause) ==
    LET rem2 == IF pause THEN rem - SLEEP_BETWEEN ELSE rem
        log2 == IF pause THEN Append(log, Event("pause", "window", "None", rem, SLEEP_BETWEEN))
                ELSE log
    IN  IF rem2 <= 0 THEN Killed(log2)
        ELSE /\ fetch_log' = log2
             /\ remaining_ms' = rem2
             /\ fetch_attempt' = 0
             /\ fetch_window' = fetch_window + 1
             /\ fetch_pc' = IF fetch_window < FetchWindows THEN "window" ELSE "done"

\* fetch_window_with_retry, top of the loop: "Low time budget; aborting
\* window fetch"
WindowAbort ==
    /\ fetch_pc = "window"
    /\ WindowLow(remaining_ms)
    /\ WindowReturns(Append(fetch_log, Event("low", "window", "None", remaining_ms, 0)),
                     remaining_ms, FALSE)
    /\ UNCHANGED <<proxies, client_cache>>
    /\ UNCHANGED <<today, prov, svars, ivars, fvars, cvars>>

\* fetch_window_with_retry, one attempt
WindowAttempt(outcome, jit4) ==
    /\ fetch_pc = "window"
    /\ ~WindowLow(remaining_ms)
    /\ LET c == pytrends_attempt(fetch_attempt, proxies, client_cache)
           called == Append(fetch_log, Event("call", "window", c.proxy, remaining_ms, CallMs))
           rem == remaining_ms - CallMs
           sleep_ms == sleep_with_jitter(fetch_attempt, jit4)
           slept == Append(called, Event("sleep", "window", "None", rem, sleep_ms))
       IN  /\ client_cache' = c.cache
           /\ IF rem <= 0 THEN Killed(called)
              ELSE IF outcome = "frame" THEN WindowReturns(called, rem, TRUE)
              ELSE IF outcome = "empty" THEN WindowReturns(called, rem, FALSE)
              ELSE IF rem - sleep_ms <= 0 THEN Killed(slept)
              ELSE IF fetch_attempt + 1 < WindowMaxAttempts
              THEN /\ fetch_log' = slept
                   /\ remaining_ms' = rem - sleep_ms
                   /\ fetch_attempt' = fetch_attempt + 1
                   /\ UNCHANGED <<fetch_pc, fetch_window>>
              ELSE WindowReturns(slept, rem - sleep_ms, FALSE)
    /\ UNCHANGED proxies
    /\ UNCHANGED <<today, prov, svars, ivars, fvars, cvars>>

NextFetch ==
    \/ FastAbort
    \/ \E outcome \in {"frame", "empty", "429", "error"}, jit10 \in FastJitters :
          FastAttempt(outcome, jit10)
    \/ \E outcome \in {"frame", "empty"} : FastFallback(outcome)
    \/ WindowAbort
    \/ \E outcome \in {"frame", "empty", "error"}, jit4 \in WindowJitters :
          WindowAttempt(outcome, jit4)

SpecFetch == InitFetch /\ [][NextFetch]_vars

-----------------------------------------------------------------------------
(* Properties of the functions *)

\* C15 (as stated): for every group name with a non-empty ingestion slug, the
\* slug under which ingestion stores the group's rows is one of the slugs the
\* forecast job loads for it.
C15_SameSlug ==
    (/\ Returned("slugify_group")
     /\ Returned("load_active_slugs")
     /\ ret["slugify_group"] # <<>>)
        => ret["slugify_group"] \in ret["load_active_slugs"]

\* the terms of group i that are columns of the frame
PresentTerms(tdf, groups, i) == SeqToSet(groups[i].terms) \cap Columns(tdf)

\* v is the maximum of the values of S that are not NaN (NaN when there is none)
IsMaxOf(v, S) ==
    LET vals == S \ {NaN}
    IN  IF vals = {} THEN IsNaN(v) ELSE v \in vals /\ \A x \in vals : RLe(x, v)

\* C16: the aggregation has exactly one column for each group with a term
\* among the columns of the fetched data, and on every day its value is the
\* maximum over the group's present terms.
C16_GroupMax ==
    Returned("groups_from_terms_df") =>
        LET tdf == call.df_terms
            groups == call.groups
            gdf == ret["groups_from_terms_df"]
            present == {i \in DOMAIN groups : PresentTerms(tdf, groups, i) # {}}
        IN  /\ Columns(gdf) = {groups[i].slug : i \in present}
            /\ \A i \in present : \A d \in DOMAIN tdf :
                  /\ d \in DOMAIN gdf
                  /\ IsMaxOf(gdf[d][groups[i].slug],
                             {tdf[d][t] : t \in PresentTerms(tdf, groups, i)})

\* a group aggregated from two present terms that differ on a day, next to a
\* group that is dropped
C16_Witness ==
    /\ Returned("groups_from_terms_df")
    /\ "b" \notin Columns(ret["groups_from_terms_df"])
    /\ \E d \in DOMAIN call.df_terms :
          /\ {"t1", "t2"} \subseteq DOMAIN call.df_terms[d]
          /\ call.df_terms[d]["t1"] = RInt(3)
          /\ call.df_terms[d]["t2"] = RInt(1)
          /\ ret["groups_from_terms_df"][d]["a"] = RInt(3)

\* max(1.25 x trailing 14-day maximum, 1.5 x last nonzero value, 10) of a
\* history h
CapOf(h) ==
    LET tail == {i \in DOMAIN h : i > Len(h) - 14}
        m == CHOOSE v \in {h[i] : i \in tail} : \A i \in tail : RLe(h[i], v)
        nzs == {i \in DOMAIN h : RGt(h[i], RInt(0))}
        nz == IF nzs = {} THEN RInt(0) ELSE h[CHOOSE i \in nzs : \A j \in nzs : j <= i]
        cands == {RMul(m, R(5, 4)), RMul(nz, R(3, 2)), RInt(10)}
    IN  CHOOSE c \in cands : \A x \in cands : RLe(x, c)

\* the history step i of a gate call runs on: y_hist and the predictions
\* before i
RunningHistory(i) ==
    call.y_hist \o SubSeq(ret["recursive_forecast_gate"].preds, 1, i - 1)

\* C17: at every step of recursive_forecast_gate the value before the final
\* clip is at most max(1.25 x trailing 14-day maximum, 1.5 x last nonzero
\* value, 10) of the running history, earlier predictions included.
C17_SoftCap ==
    Returned("recursive_forecast_gate") =>
        \A i \in DOMAIN ret["recursive_forecast_gate"].before_clip :
            RLe(ret["recursive_forecast_gate"].before_clip[i], CapOf(RunningHistory(i)))

\* a call whose second step is cut down to a cap that an earlier prediction
\* has raised
C17_Witness ==
    /\ Returned("recursive_forecast_gate")
    /\ ret["recursive_forecast_gate"].preds[1] # RInt(0)
    /\ ret["recursive_forecast_gate"].before_clip[2] = CapOf(RunningHistory(2))
    /\ CapOf(RunningHistory(2)) # CapOf(RunningHistory(1))
    /\ RLt(CapOf(RunningHistory(2)), call.os[2].yhat_raw)

\* C18: with p, the regression output and the cap fixed, a forecast that is
\* nonzero under a threshold is nonzero under every lower threshold; and
\* tau_dyn does not decrease when the zero run grows.
C18_GateMonotone ==
    Returned("tau_dyn") =>
        /\ \A j, k \in 1..2 :
              (RLe(ret["tau_dyn"][j], ret["tau_dyn"][k]) /\ ret["yhat"][k] # RInt(0))
                  => ret["yhat"][j] # RInt(0)
        /\ \A j, k \in 1..2 :
              (call.tau[j] = call.tau[k] /\ call.zr[j] <= call.zr[k])
                  => RLe(ret["tau_dyn"][j], ret["tau_dyn"][k])

\* a longer zero run has raised the threshold and turned a nonzero forecast
\* into zero
C18_Witness ==
    /\ Returned("tau_dyn")
    /\ call.tau[1] = call.tau[2]
    /\ call.zr[1] < call.zr[2]
    /\ RLt(ret["tau_dyn"][1], ret["tau_dyn"][2])
    /\ ret["yhat"][1] # RInt(0)
    /\ ret["yhat"][2] = RInt(0)

\* the slug's persisted history is n consecutive days of interest 0 ending
\* the day before the run
ZeroHistory(sl, n) ==
    /\ DOMAIN table[sl] = (today - n)..(today - 1)
    /\ \A d \in DOMAIN table[sl] : table[sl][d].interest = 0

\* the loop has passed slug i without an exception
PassedCleanly(i) ==
    /\ f_pc \in {"loop", "done"}
    /\ i < si
    /\ ~\E k \in DOMAIN skipped_slugs :
          skipped_slugs[k].slug = active_slugs[i] /\ skipped_slugs[k].reason = "error"

\* C19: a slug whose history is 150 consecutive days of interest 0 is not
\* skipped for insufficient history, and once the loop has passed it without
\* an exception it has a forecast row for each of FORECAST_DAYS days, every
\* one of them 0; under both forecasters.
C19_ZeroHistoryZeroForecast ==
    \A i \in DOMAIN active_slugs :
        LET sl == active_slugs[i]
        IN  ZeroHistory(sl, 150) =>
               /\ ~\E k \in DOMAIN skipped_slugs :
                     /\ skipped_slugs[k].slug = sl
                     /\ skipped_slugs[k].reason = "insufficient_history"
               /\ \A d \in DOMAIN forecasts[sl] : forecasts[sl][d] = 0
               /\ PassedCleanly(i) =>
                     /\ Cardinality(DOMAIN forecasts[sl]) = FORECAST_DAYS
                     /\ \E k \in DOMAIN touched_slugs : touched_slugs[k] = sl

\* the Glue run has trained on the 150 zeros and written FORECAST_DAYS zeros
C19_Witness ==
    /\ f_pc = "done"
    /\ variant = "glue"
    /\ \E i \in DOMAIN active_slugs :
          /\ ZeroHistory(active_slugs[i], 150)
          /\ PassedCleanly(i)
          /\ Cardinality(DOMAIN forecasts[active_slugs[i]]) = FORECAST_DAYS
          /\ \A d \in DOMAIN forecasts[active_slugs[i]] : forecasts[active_slugs[i]][d] = 0

\* the slugs of a plan call without a last persisted day
NewSlugs == {sl \in SeqToSet(call.slugs) : sl \notin DOMAIN call.last_days}

\* the oldest last persisted day of the slugs of a plan call
OldestLastDay == SetMin({call.last_days[sl] : sl \in SeqToSet(call.slugs)})

\* C20: the planned horizon is between 1 and DAYS_BACK; it is DAYS_BACK when
\* a slug of the run has no persisted day; and when every slug has one it is
\* min(DAYS_BACK, days from the oldest last persisted day minus
\* INCR_OVERLAP_DAYS to the run date).
C20_FetchHorizon ==
    Returned("effective_days_back") =>
        /\ ret["effective_days_back"] >= 1
        /\ ret["effective_days_back"] <= DAYS_BACK
        /\ NewSlugs # {} => ret["effective_days_back"] = DAYS_BACK
        /\ NewSlugs = {} =>
              ret["effective_days_back"] =
                  Min(DAYS_BACK, today - (OldestLastDay - INCR_OVERLAP_DAYS))

\* every slug has data and the horizon is shorter than DAYS_BACK, set by the
\* slug whose last day is the older one
C20_Witness ==
    /\ Returned("effective_days_back")
    /\ Len(call.slugs) = 2
    /\ NewSlugs = {}
    /\ call.last_days["a"] # call.last_days["b"]
    /\ ret["effective_days_back"] > 1
    /\ ret["effective_days_back"] < DAYS_BACK

\* the days of window w
WindowDays(w) == w[1]..w[2]

\* C23 (as stated): the windows requested for a horizon of days_back days
\* cover every day from end_day - days_back through end_day.
C23_WindowsCoverHorizon ==
    Returned("windows") =>
        \A d \in (call.end_day - call.days_back)..call.end_day :
            \E i \in DOMAIN ret["windows"] : d \in WindowDays(ret["windows"][i])

\* C24: when there is more than one window, each window starts and ends
\* after the one before it and shares at least 30 days with it.
C24_WindowsOverlap ==
    (Returned("windows") /\ Len(ret["windows"]) > 1) =>
        \A i \in 1..(Len(ret["windows"]) - 1) :
            /\ ret["windows"][i][1] < ret["windows"][i + 1][1]
            /\ ret["windows"][i][2] < ret["windows"][i + 1][2]
            /\ Cardinality(WindowDays(ret["windows"][i]) \cap
                           WindowDays(ret["windows"][i + 1])) >= 30

\* three windows, the last of them shorter than the span
C24_Witness ==
    /\ Returned("windows")
    /\ Len(ret["windows"]) = 3
    /\ Cardinality(WindowDays(ret["windows"][3])) < 90

\* C25 (as stated): the gate and regression weights of the final forecast
\* are fitted on every row of the design matrix, the validation rows
\* included, the regression with the winning penalty.
C25_FinalWeightsOnFullHistory ==
    Returned("forecast_series_two_stage") =>
        LET r == ret["forecast_series_two_stage"]
        IN  /\ r.w_gate.rows = DOMAIN r.X_df
            /\ r.w_reg.rows = DOMAIN r.X_df
            /\ r.w_reg.alpha = ALPHAS[call.best_a]

\* C30: at step j of the validation forecast and of the final forecast the
\* time counter is congruent modulo 7 to the t that add_fourier_to_df gives
\* the row of that day's position in the series.
C30_FourierPhase ==
    Returned("forecast_series_two_stage") =>
        LET r == ret["forecast_series_two_stage"]
        IN  /\ \A j \in DOMAIN r.val_t :
                  r.val_t[j] % 7 = fourier_t(r.val_first_pos + (j - 1)) % 7
            /\ \A j \in DOMAIN r.final_t :
                  r.final_t[j] % 7 = fourier_t(r.final_first_pos + (j - 1)) % 7

\* a series whose length is no multiple of 7: the counters differ from the
\* positions and still agree with them modulo 7
C30_Witness ==
    /\ Returned("forecast_series_two_stage")
    /\ call.len_s % 7 # 0
    /\ ret["forecast_series_two_stage"].final_t[1] # ret["forecast_series_two_stage"].final_first_pos
    /\ ret["forecast_series_two_stage"].val_t[1] % 7 # 0
    /\ ret["forecast_series_two_stage"].split < Cardinality(DOMAIN ret["forecast_series_two_stage"].X_df)

\* the forecast rows in the store
ForecastKeys == UNION {{<<sl, d>> : d \in DOMAIN forecasts[sl]} : sl \in DOMAIN forecasts}

\* C26 (as stated): at the end of a forecast run the reported total is the
\* number of forecast rows written during the run, and the touched slugs are
\* the slugs with at least one row written.
C26_ReportedRowsAreWrittenRows ==
    f_pc = "done" =>
        /\ total_rows = Cardinality(ForecastKeys)
        /\ SeqToSet(touched_slugs) = {sl \in DOMAIN forecasts : forecasts[sl] # <<>>}

\* C29 (as stated): after a run that has written rows, a slug that had a last
\* persisted day D at the start of the run has a stored row for every day
\* from D + 1 through the last day the run wrote for it.
C29_NoHoleAfterLastDay ==
    (ev = "run" /\ run.rows_upserted > 0) =>
        \A sl \in DOMAIN run.last_days :
            LET written == {c[2] : c \in {x \in run.upserts : x[1] = sl}}
            IN  written # {} =>
                    \A d \in (run.last_days[sl] + 1)..SetTop(written) : d \in DOMAIN table[sl]

-----------------------------------------------------------------------------
(* Properties of the provider calls of a run *)

ProviderCalls == {i \in DOMAIN fetch_log : fetch_log[i].kind = "call"}
BackoffSleeps == {i \in DOMAIN fetch_log : fetch_log[i].kind = "sleep"}
LowFindings(path) ==
    {i \in DOMAIN fetch_log : fetch_log[i].kind = "low" /\ fetch_log[i].path = path}

\* C21 (as stated): in a run that has chosen a proxy, every provider call
\* (attempts of the fast path, its fallback, attempts of the windows) goes
\* through that proxy.
C21_EveryCallThroughChosenProxy ==
    proxies # <<>> => \A i \in ProviderCalls : fetch_log[i].proxy = proxies[1]

\* C22: a window attempt calls the provider only after finding at least
\* 5000 ms remaining; when less remain at the top of the loop, the next step
\* is the return of the empty frame without a provider call, and no call for
\* that window follows.
C22_WindowBudgetChecked ==
    /\ [](/\ \A i \in ProviderCalls :
                fetch_log[i].path = "window" => fetch_log[i].remaining >= 5000
          /\ \A i \in LowFindings("window") : \A j \in ProviderCalls :
                (i < j /\ fetch_log[j].path = "window")
                    => fetch_log[j].window # fetch_log[i].window)
    /\ [][(fetch_pc = "window" /\ remaining_ms < 5000) =>
             /\ fetch_window' = fetch_window + 1
             /\ fetch_log' = Append(fetch_log, Event("low", "window", "None", remaining_ms, 0))
             /\ remaining_ms' = remaining_ms]_vars

\* a window fetch that called the provider, slept, and then found the budget
\* low before its next attempt
C22_Witness ==
    \E i \in LowFindings("window") : \E j \in ProviderCalls :
        /\ j < i
        /\ fetch_log[j].path = "window"
        /\ fetch_log[j].window = fetch_log[i].window
        /\ fetch_log[i].remaining < 5000
        /\ fetch_log[i].remaining > 0

\* C27 (as stated): no backoff sleep between retry attempts is longer than
\* the time remaining when it starts minus 5000 ms.
C27_SleepWithinBudget ==
    \A i \in BackoffSleeps : fetch_log[i].ms <= fetch_log[i].remaining - 5000

\* C28 (as stated): after fetch_fast has found the budget too low (at the top
\* of the loop, or when no time is left for a sleep) it makes no provider
\* call, by an attempt or by its fallback.
C28_NoFastCallAfterLowBudget ==
    \A i \in LowFindings("fast") : \A j \in ProviderCalls :
        i < j => fetch_log[j].path \notin {"fast", "fallback"}

====
